---- MODULE Spec2Model ----
(***************************************************************************)
(* regiface: register / command transactions over an I2C or SPI bus.       *)
(*                                                                         *)
(* The library is generic over the register and command types, the bus     *)
(* handle and the payload codecs.  The model instantiates those generics   *)
(* with a small family of fixture types (RegisterTypes, CommandTypes) and  *)
(* a recording bus whose driver executes the operations of one call one    *)
(* at a time on the wire.                                                  *)
(*                                                                         *)
(* An unsigned integer of width W is held as its base-65536 digits, least  *)
(* significant digit first (one digit below 256 for u8), so that u32, u64  *)
(* and u128 keep their full width: value = SUM limbs[j] * 65536^(j-1).     *)
(***************************************************************************)
EXTENDS Integers, Sequences, FiniteSets, TLC

VARIABLES
    busKind,    \* "i2c" or "spi": the kind of the bus handle
    pc,         \* per caller: "idle", "bus" (inside the bus call), "ready", "done"
    call,       \* per caller: the arguments of its current call
    busLog,     \* per caller: the bus calls the handle observed during this call
    resps,      \* per caller: the bus handle's answers to those calls
    progress,   \* per caller: operations of the call in flight already executed
    reads,      \* per caller: read buffers the call in flight has filled so far
    result,     \* per caller: what the call returned
    trace,      \* per caller: to_bytes / from_bytes invocations and suspensions
    seq,        \* per caller: number of calls started
    wire,       \* the bus-level operation trace
    owner,      \* caller whose transaction holds the bus, 0 when free
    codecIn,    \* byte-array conversions: the input under test
    codecOut,   \* byte-array conversions: what the conversions returned
    libIn,      \* trait methods and error conversions: the input under test
    libOut      \* trait methods and error conversions: what they returned

vars == <<busKind, pc, call, busLog, resps, progress, reads, result, trace,
          seq, wire, owner, codecIn, codecOut, libIn, libOut>>

txVars == <<busKind, pc, call, busLog, resps, progress, reads, result, trace,
            seq, wire, owner>>

codecVars == <<codecIn, codecOut>>

libVars == <<libIn, libOut>>

----------------------------------------------------------------------------
(* Bounds of the model.                                                     *)

\* calls started on one bus before the scenario ends
MaxCalls == 2

\* longest array [u8; N] whose ByteArray methods are exercised
MaxLen == 3

----------------------------------------------------------------------------
(* Byte arrays: src/src/byte_array.rs                                       *)

Byte == 0..255

\* ByteArray::new for [u8; LEN]: [0; LEN]
ByteArray_new(len) == [i \in 1..len |-> 0]

\* a slice &[u8] into an array: where it starts in the array, and its length
Slice(base, len) == [base |-> base, len |-> len]

\* ByteArray::as_ref for [u8; LEN], mutant: the slice stops one byte short
as_ref_short(self) == Slice(0, IF Len(self) = 0 THEN 0 ELSE Len(self) - 1)

\* ByteArray::as_ref for [u8; LEN]: self, as the slice over the whole array
as_ref(self) == Slice(0, Len(self))

\* ByteArray::as_mut for [u8; LEN]: self, as the mutable slice over the whole array
as_mut(self) == Slice(0, Len(self))

\* slice[i] = b through a mutable slice s of the array: the array afterwards
Store(array, s, i, b) == [array EXCEPT ![s.base + i + 1] = b]

\* the bytes a reader of the slice s of the array sees
Exposed(array, s) == [i \in 1..s.len |-> array[s.base + i]]

\* number of bytes of an integer of width w
NBytes(w) == w \div 8

\* number of base-65536 digits holding an integer of width w
NLimbs(w) == IF w = 8 THEN 1 ELSE w \div 16

Widths == {8, 16, 32, 64, 128}

\* (v >> (8*k)) & 0xFF of the integer held in limbs
ByteAt(limbs, k) ==
    LET limb == limbs[(k \div 2) + 1]
    IN IF k % 2 = 0 THEN limb % 256 ELSE limb \div 256

\* uN::to_be_bytes: most significant byte first
to_be_bytes(w, limbs) == [i \in 1..NBytes(w) |-> ByteAt(limbs, NBytes(w) - i)]

\* uN::to_le_bytes: least significant byte first
to_le_bytes(w, limbs) == [i \in 1..NBytes(w) |-> ByteAt(limbs, i - 1)]

\* uN::from_be_bytes
from_be_bytes(w, bytes) ==
    IF w = 8 THEN <<bytes[1]>>
    ELSE [j \in 1..NLimbs(w) |->
            bytes[NBytes(w) - 2 * (j - 1)] + 256 * bytes[NBytes(w) - 2 * (j - 1) - 1]]

\* Result<T, E>
Ok(v) == [tag |-> "Ok", val |-> v]
Err(e) == [tag |-> "Err", val |-> e]

\* impl ToByteArray for u8 .. u128: mutant writing the bytes least significant first
to_bytes_le(w, limbs) == Ok(to_le_bytes(w, limbs))

\* impl ToByteArray for u8 .. u128, mutant: the wider integers are refused
to_bytes_narrow(w, limbs) ==
    IF w > 32 THEN Err("Overflow")
    ELSE IF w = 8 THEN Ok(<<limbs[1]>>) ELSE Ok(to_be_bytes(w, limbs))

\* impl ToByteArray for u8 .. u128
to_bytes(w, limbs) ==
    IF w = 8 THEN Ok(<<limbs[1]>>) ELSE Ok(to_be_bytes(w, limbs))

\* uN::from_le_bytes
from_le_bytes(w, bytes) ==
    IF w = 8 THEN <<bytes[1]>>
    ELSE [j \in 1..NLimbs(w) |-> bytes[2 * j - 1] + 256 * bytes[2 * j]]

\* impl FromByteArray for u8 .. u128: mutant reading the bytes least significant first
from_bytes_le(w, bytes) == Ok(from_le_bytes(w, bytes))

\* impl FromByteArray for u8 .. u128
from_bytes(w, bytes) == Ok(from_be_bytes(w, bytes))

\* what stands for the id bytes of a call whose unwrap panicked, and of a call
\* that took unwrap_unchecked on an Err (undefined behaviour: any outcome)
Panicked == <<-1>>
Undefined == <<-2>>

\* Result::unwrap: the value, a panic on Err
unwrap(r) == IF r.tag = "Ok" THEN r.val ELSE Panicked

\* Result::unwrap_unchecked: the value, undefined on Err
unwrap_unchecked(r) == IF r.tag = "Ok" THEN r.val ELSE Undefined

----------------------------------------------------------------------------
(* Register and command types: src/regiface/src/register.rs, command.rs.    *)
(* The traits are implemented downstream; these fixtures instantiate them.  *)

NoOverride == <<>>

\* a u8 id, big-endian u16 contents, one-byte written form, no id override
Temperature ==
    [name |-> "Temperature", idw |-> 8, id |-> <<42>>,
     rid |-> NoOverride, wid |-> NoOverride, rlen |-> 2, wlen |-> 1, dec |-> "be"]

\* a u16 id whose read opcode sets the top bit; contents reject the byte 0xFF
Config ==
    [name |-> "Config", idw |-> 16, id |-> <<4660>>,
     rid |-> <<37428>>, wid |-> NoOverride, rlen |-> 1, wlen |-> 2, dec |-> "strict"]

\* a u32 id with distinct read and write opcodes
Status ==
    [name |-> "Status", idw |-> 32, id |-> <<22136, 4660>>,
     rid |-> <<22137, 4660>>, wid |-> <<22138, 4660>>, rlen |-> 2, wlen |-> 1,
     dec |-> "strict"]

RegisterTypes == {Temperature, Config, Status}

\* registers with a u64 id, 0x0102030405060708, and with a u128 id,
\* 0x101112131415161718191A1B1C1D1E1F
Uptime ==
    [name |-> "Uptime", idw |-> 64, id |-> <<1800, 1286, 772, 258>>,
     rid |-> NoOverride, wid |-> NoOverride, rlen |-> 1, wlen |-> 1, dec |-> "be"]

Signature ==
    [name |-> "Signature", idw |-> 128,
     id |-> <<7711, 7197, 6683, 6169, 5655, 5141, 4627, 4113>>,
     rid |-> NoOverride, wid |-> NoOverride, rlen |-> 1, wlen |-> 1, dec |-> "be"]

WideIdTypes == {Uptime, Signature}

\* id 0xF0, no parameters, one response byte
SelfTest ==
    [name |-> "SelfTest", idw |-> 8, id |-> <<240>>, plen |-> 0, rlen |-> 1, dec |-> "be"]

\* a u16 id, two parameter bytes, a two-byte response that rejects 0xFF
Calibrate ==
    [name |-> "Calibrate", idw |-> 16, id |-> <<48879>>, plen |-> 2, rlen |-> 2,
     dec |-> "strict"]

CommandTypes == {SelfTest, Calibrate}

\* a command without parameters and without response: NoParameters both ways
Reset ==
    [name |-> "Reset", idw |-> 8, id |-> <<15>>, plen |-> 0, rlen |-> 0,
     dec |-> "NoParameters"]

\* a type that is both a command, 0x30, and a register read by 0xB0 and
\* written by 0x70
Probe ==
    [name |-> "Probe", idw |-> 8, id |-> <<48>>, rid |-> <<176>>, wid |-> <<112>>,
     plen |-> 0, rlen |-> 1, wlen |-> 1, dec |-> "be"]

\* Register::id / Command::id
id(T) == T.id

\* ReadableRegister::readable_id: defaults to id() unless overridden
readable_id(R) == IF R.rid = NoOverride THEN id(R) ELSE R.rid

\* WritableRegister::writeable_id: mutant whose default is the read opcode
writeable_id_follows_readable(R) == IF R.wid = NoOverride THEN readable_id(R) ELSE R.wid

\* WritableRegister::writeable_id: defaults to id() unless overridden
writeable_id(R) == IF R.wid = NoOverride THEN id(R) ELSE R.wid

\* a payload value: the bytes it encodes to, or the fault that keeps it from encoding
Payload(raw, fault) == [raw |-> raw, fault |-> fault]

\* NoParameters {}: the value without fields
NoParameters == Payload(<<>>, "none")

\* impl ToByteArray for NoParameters: Array = [u8; 0], the conversion cannot fail
NoParameters_to_bytes(self) == Ok(ByteArray_new(0))

\* impl FromByteArray for NoParameters: Array = [u8; 0], the conversion cannot fail
NoParameters_from_bytes(bytes) == Ok(NoParameters)

\* ToByteArray::to_bytes of a payload: the library's NoParameters, or a
\* downstream type (fallible)
payload_to_bytes(v) ==
    IF v = NoParameters THEN NoParameters_to_bytes(v)
    ELSE IF v.fault = "none" THEN Ok(v.raw) ELSE Err(v.fault)

\* Command::invoking_parameters
invoking_parameters(cmd) == cmd.params

\* FromByteArray::from_bytes of the library's NoParameters, or of a downstream
\* type T with Array = [u8; T.rlen]
payload_from_bytes(T, bytes) ==
    IF T.dec = "NoParameters" THEN NoParameters_from_bytes(bytes)
    ELSE IF T.dec = "strict" /\ \E i \in 1..Len(bytes) : bytes[i] = 255
         THEN Err("InvalidPattern")
         ELSE from_bytes(8 * T.rlen, bytes)

----------------------------------------------------------------------------
(* Errors: src/regiface/src/errors.rs                                       *)

ReadRegisterError_BusError(e) ==
    [enum |-> "ReadRegisterError", variant |-> "BusError", cause |-> e]
ReadRegisterError_DeserializationError(e) ==
    [enum |-> "ReadRegisterError", variant |-> "DeserializationError", cause |-> e]
WriteRegisterError_BusError(e) ==
    [enum |-> "WriteRegisterError", variant |-> "BusError", cause |-> e]
WriteRegisterError_SerializationError(e) ==
    [enum |-> "WriteRegisterError", variant |-> "SerializationError", cause |-> e]
CommandError_BusError(e) ==
    [enum |-> "CommandError", variant |-> "BusError", cause |-> e]
CommandError_SerializationError(e) ==
    [enum |-> "CommandError", variant |-> "SerializationError", cause |-> e]
CommandError_DeserializationError(e) ==
    [enum |-> "CommandError", variant |-> "DeserializationError", cause |-> e]

\* the simplified Error: the kind of the failure, without a cause
Error_BusError == [enum |-> "Error", variant |-> "BusError"]
Error_SerializationError == [enum |-> "Error", variant |-> "SerializationError"]
Error_DeserializationError == [enum |-> "Error", variant |-> "DeserializationError"]

\* impl From<ReadRegisterError<B, D>> for Error
Error_from_ReadRegisterError(value) ==
    CASE value.variant = "BusError" -> Error_BusError
      [] value.variant = "DeserializationError" -> Error_DeserializationError

\* impl From<WriteRegisterError<B, S>> for Error
Error_from_WriteRegisterError(value) ==
    CASE value.variant = "BusError" -> Error_BusError
      [] value.variant = "SerializationError" -> Error_SerializationError

\* impl From<CommandError<..>> for Error, mutant: the two conversion kinds are
\* taken for each other
Error_from_CommandError_swapped(value) ==
    CASE value.variant = "BusError" -> Error_BusError
      [] value.variant = "DeserializationError" -> Error_SerializationError
      [] value.variant = "SerializationError" -> Error_DeserializationError

\* impl From<CommandError<..>> for Error
Error_from_CommandError(value) ==
    CASE value.variant = "BusError" -> Error_BusError
      [] value.variant = "DeserializationError" -> Error_DeserializationError
      [] value.variant = "SerializationError" -> Error_SerializationError

----------------------------------------------------------------------------
(* The bus handle's interface (embedded-hal): operations and calls.         *)

\* Operation::Write(bytes)
Write(bytes) == [op |-> "Write", bytes |-> bytes]

\* Operation::Read(buffer): the buffer as handed to the bus
Read(buf) == [op |-> "Read", bytes |-> buf]

NoAddr == 0

\* I2c::write_read(address, write, read)
I2c_write_read(addr, bytes, buf) ==
    [prim |-> "write_read", addr |-> addr, ops |-> <<Write(bytes), Read(buf)>>]

\* I2c::transaction(address, operations)
I2c_transaction(addr, ops) == [prim |-> "transaction", addr |-> addr, ops |-> ops]

\* SpiDevice::transaction(operations)
Spi_transaction(ops) == [prim |-> "transaction", addr |-> NoAddr, ops |-> ops]

NoCall == [prim |-> "none", addr |-> NoAddr, ops |-> <<>>]
NoResult == [tag |-> "None", val |-> <<>>]

(* A transaction function is a resumable computation: given the answers rs  *)
(* the bus handle has given so far, it either issues its next bus call      *)
(* (awaiting it, or blocking in it) or returns.  ser and deser count the    *)
(* invocations of the payload's to_bytes and of from_bytes on the path.     *)
Await(c, ser) ==
    [kind |-> "await", call |-> c, res |-> NoResult, ser |-> ser, deser |-> 0]
Block(c, ser) ==
    [kind |-> "block", call |-> c, res |-> NoResult, ser |-> ser, deser |-> 0]
Return(r, ser, deser) ==
    [kind |-> "return", call |-> NoCall, res |-> r, ser |-> ser, deser |-> deser]

\* the buffer a successful bus call filled: the call's only read operation
Filled(r) == r.val[1]

----------------------------------------------------------------------------
(* The transaction functions: src/regiface/src/i2c.rs, spi.rs               *)

\* i2c::r#async::read_register, mutant: a failed bus call is tried once more
i2c_async_read_register_retry(device_addr, R, rs) ==
    LET buf == ByteArray_new(R.rlen)
        reg_id == unwrap(to_bytes(R.idw, readable_id(R)))
        last == rs[Len(rs)]
    IN IF rs = <<>> \/ (Len(rs) = 1 /\ rs[1].tag = "Err")
       THEN Await(I2c_write_read(device_addr, reg_id, buf), 0)
       ELSE IF last.tag = "Err"
            THEN Return(Err(ReadRegisterError_BusError(last.val)), 0, 0)
            ELSE LET r == payload_from_bytes(R, Filled(last))
                 IN IF r.tag = "Err"
                    THEN Return(Err(ReadRegisterError_DeserializationError(r.val)), 0, 1)
                    ELSE Return(Ok(r.val), 0, 1)

\* i2c::r#async::read_register
i2c_async_read_register(device_addr, R, rs) ==
    LET buf == ByteArray_new(R.rlen)
        reg_id == unwrap(to_bytes(R.idw, readable_id(R)))
    IN IF rs = <<>>
       THEN Await(I2c_write_read(device_addr, reg_id, buf), 0)
       ELSE IF rs[1].tag = "Err"
            THEN Return(Err(ReadRegisterError_BusError(rs[1].val)), 0, 0)
            ELSE LET r == payload_from_bytes(R, Filled(rs[1]))
                 IN IF r.tag = "Err"
                    THEN Return(Err(ReadRegisterError_DeserializationError(r.val)), 0, 1)
                    ELSE Return(Ok(r.val), 0, 1)

\* i2c::r#async::write_register, mutant: the id and the payload are written in
\* two separate bus calls
i2c_async_write_register_two_calls(device_addr, R, register, rs) ==
    LET buf == payload_to_bytes(register)
        reg_id == unwrap(to_bytes(R.idw, writeable_id(R)))
    IN IF buf.tag = "Err"
       THEN Return(Err(WriteRegisterError_SerializationError(buf.val)), 1, 0)
       ELSE IF rs = <<>>
            THEN Await(I2c_transaction(device_addr, <<Write(reg_id)>>), 1)
            ELSE IF rs[Len(rs)].tag = "Err"
                 THEN Return(Err(WriteRegisterError_BusError(rs[Len(rs)].val)), 1, 0)
                 ELSE IF Len(rs) = 1
                      THEN Await(I2c_transaction(device_addr, <<Write(buf.val)>>), 1)
                      ELSE Return(Ok(<<>>), 1, 0)

\* i2c::r#async::write_register, mutant: the id written is the readable id
i2c_async_write_register_readable_id(device_addr, R, register, rs) ==
    LET buf == payload_to_bytes(register)
        reg_id == unwrap(to_bytes(R.idw, readable_id(R)))
    IN IF buf.tag = "Err"
       THEN Return(Err(WriteRegisterError_SerializationError(buf.val)), 1, 0)
       ELSE IF rs = <<>>
            THEN Await(I2c_transaction(device_addr, <<Write(reg_id), Write(buf.val)>>), 1)
            ELSE IF rs[1].tag = "Err"
                 THEN Return(Err(WriteRegisterError_BusError(rs[1].val)), 1, 0)
                 ELSE Return(Ok(<<>>), 1, 0)

\* i2c::r#async::write_register
i2c_async_write_register(device_addr, R, register, rs) ==
    LET buf == payload_to_bytes(register)
        reg_id == unwrap(to_bytes(R.idw, writeable_id(R)))
    IN IF buf.tag = "Err"
       THEN Return(Err(WriteRegisterError_SerializationError(buf.val)), 1, 0)
       ELSE IF rs = <<>>
            THEN Await(I2c_transaction(device_addr, <<Write(reg_id), Write(buf.val)>>), 1)
            ELSE IF rs[1].tag = "Err"
                 THEN Return(Err(WriteRegisterError_BusError(rs[1].val)), 1, 0)
                 ELSE Return(Ok(<<>>), 1, 0)

\* i2c::r#async::invoke_command, mutant: the response buffer is one byte too long
i2c_async_invoke_command_long_buffer(device_addr, C, cmd, rs) ==
    LET cmd_buf == payload_to_bytes(invoking_parameters(cmd))
        resp_buf == ByteArray_new(C.rlen + 1)
        reg_id == unwrap_unchecked(to_bytes(C.idw, id(C)))
    IN IF cmd_buf.tag = "Err"
       THEN Return(Err(CommandError_SerializationError(cmd_buf.val)), 1, 0)
       ELSE IF rs = <<>>
            THEN Await(I2c_transaction(device_addr,
                            <<Write(reg_id), Write(cmd_buf.val), Read(resp_buf)>>), 1)
            ELSE IF rs[1].tag = "Err"
                 THEN Return(Err(CommandError_BusError(rs[1].val)), 1, 0)
                 ELSE LET r == payload_from_bytes(C, Filled(rs[1]))
                      IN IF r.tag = "Err"
                         THEN Return(Err(CommandError_DeserializationError(r.val)), 1, 1)
                         ELSE Return(Ok(r.val), 1, 1)

\* i2c::r#async::invoke_command
i2c_async_invoke_command(device_addr, C, cmd, rs) ==
    LET cmd_buf == payload_to_bytes(invoking_parameters(cmd))
        resp_buf == ByteArray_new(C.rlen)
        reg_id == unwrap_unchecked(to_bytes(C.idw, id(C)))
    IN IF cmd_buf.tag = "Err"
       THEN Return(Err(CommandError_SerializationError(cmd_buf.val)), 1, 0)
       ELSE IF rs = <<>>
            THEN Await(I2c_transaction(device_addr,
                            <<Write(reg_id), Write(cmd_buf.val), Read(resp_buf)>>), 1)
            ELSE IF rs[1].tag = "Err"
                 THEN Return(Err(CommandError_BusError(rs[1].val)), 1, 0)
                 ELSE LET r == payload_from_bytes(C, Filled(rs[1]))
                      IN IF r.tag = "Err"
                         THEN Return(Err(CommandError_DeserializationError(r.val)), 1, 1)
                         ELSE Return(Ok(r.val), 1, 1)

\* i2c::blocking::read_register, mutant: the buffer is decoded before the bus
\* result is looked at
i2c_blocking_read_register_eager_decode(device_addr, R, rs) ==
    LET buf == ByteArray_new(R.rlen)
        reg_id == unwrap(to_bytes(R.idw, readable_id(R)))
    IN IF rs = <<>>
       THEN Block(I2c_write_read(device_addr, reg_id, buf), 0)
       ELSE LET r == payload_from_bytes(R, IF rs[1].tag = "Err" THEN buf ELSE Filled(rs[1]))
            IN IF rs[1].tag = "Err"
               THEN Return(Err(ReadRegisterError_BusError(rs[1].val)), 0, 1)
               ELSE IF r.tag = "Err"
                    THEN Return(Err(ReadRegisterError_DeserializationError(r.val)), 0, 1)
                    ELSE Return(Ok(r.val), 0, 1)

\* i2c::blocking::read_register, mutant: the address is passed in its 8-bit form
i2c_blocking_read_register_shifted_addr(device_addr, R, rs) ==
    LET buf == ByteArray_new(R.rlen)
        reg_id == unwrap(to_bytes(R.idw, readable_id(R)))
    IN IF rs = <<>>
       THEN Block(I2c_write_read((2 * device_addr) % 256, reg_id, buf), 0)
       ELSE IF rs[1].tag = "Err"
            THEN Return(Err(ReadRegisterError_BusError(rs[1].val)), 0, 0)
            ELSE LET r == payload_from_bytes(R, Filled(rs[1]))
                 IN IF r.tag = "Err"
                    THEN Return(Err(ReadRegisterError_DeserializationError(r.val)), 0, 1)
                    ELSE Return(Ok(r.val), 0, 1)

\* i2c::blocking::read_register, mutant: a bus failure is kept in a static,
\* and the next read returns it in place of a bus call of its own
i2c_blocking_read_register_remembers_failure(device_addr, R, rs) ==
    LET buf == ByteArray_new(R.rlen)
        reg_id == unwrap(to_bytes(R.idw, readable_id(R)))
        failed == {c \in DOMAIN result : result[c].tag = "Err" /\ result[c].val.variant = "BusError"}
    IN IF rs = <<>>
       THEN IF failed # {}
            THEN Return(Err(ReadRegisterError_BusError(
                                result[CHOOSE c \in failed : TRUE].val.cause)), 0, 0)
            ELSE Block(I2c_write_read(device_addr, reg_id, buf), 0)
       ELSE IF rs[1].tag = "Err"
            THEN Return(Err(ReadRegisterError_BusError(rs[1].val)), 0, 0)
            ELSE LET r == payload_from_bytes(R, Filled(rs[1]))
                 IN IF r.tag = "Err"
                    THEN Return(Err(ReadRegisterError_DeserializationError(r.val)), 0, 1)
                    ELSE Return(Ok(r.val), 0, 1)

\* i2c::blocking::read_register
i2c_blocking_read_register(device_addr, R, rs) ==
    LET buf == ByteArray_new(R.rlen)
        reg_id == unwrap(to_bytes(R.idw, readable_id(R)))
    IN IF rs = <<>>
       THEN Block(I2c_write_read(device_addr, reg_id, buf), 0)
       ELSE IF rs[1].tag = "Err"
            THEN Return(Err(ReadRegisterError_BusError(rs[1].val)), 0, 0)
            ELSE LET r == payload_from_bytes(R, Filled(rs[1]))
                 IN IF r.tag = "Err"
                    THEN Return(Err(ReadRegisterError_DeserializationError(r.val)), 0, 1)
                    ELSE Return(Ok(r.val), 0, 1)

\* i2c::blocking::write_register, mutant: the bus call is issued before the
\* serialization result is looked at
i2c_blocking_write_register_bus_first(device_addr, R, register, rs) ==
    LET buf == payload_to_bytes(register)
        reg_id == unwrap(to_bytes(R.idw, writeable_id(R)))
        bytes == IF buf.tag = "Err" THEN ByteArray_new(R.wlen) ELSE buf.val
    IN IF rs = <<>>
       THEN Block(I2c_transaction(device_addr, <<Write(reg_id), Write(bytes)>>), 1)
       ELSE IF buf.tag = "Err"
            THEN Return(Err(WriteRegisterError_SerializationError(buf.val)), 1, 0)
            ELSE IF rs[1].tag = "Err"
                 THEN Return(Err(WriteRegisterError_BusError(rs[1].val)), 1, 0)
                 ELSE Return(Ok(<<>>), 1, 0)

\* i2c::blocking::write_register
i2c_blocking_write_register(device_addr, R, register, rs) ==
    LET buf == payload_to_bytes(register)
        reg_id == unwrap(to_bytes(R.idw, writeable_id(R)))
    IN IF buf.tag = "Err"
       THEN Return(Err(WriteRegisterError_SerializationError(buf.val)), 1, 0)
       ELSE IF rs = <<>>
            THEN Block(I2c_transaction(device_addr, <<Write(reg_id), Write(buf.val)>>), 1)
            ELSE IF rs[1].tag = "Err"
                 THEN Return(Err(WriteRegisterError_BusError(rs[1].val)), 1, 0)
                 ELSE Return(Ok(<<>>), 1, 0)

\* i2c::blocking::invoke_command, mutant: the two conversion errors are tagged
\* the wrong way round
i2c_blocking_invoke_command_swapped_tags(device_addr, C, cmd, rs) ==
    LET cmd_buf == payload_to_bytes(invoking_parameters(cmd))
        resp_buf == ByteArray_new(C.rlen)
        reg_id == unwrap_unchecked(to_bytes(C.idw, id(C)))
    IN IF cmd_buf.tag = "Err"
       THEN Return(Err(CommandError_DeserializationError(cmd_buf.val)), 1, 0)
       ELSE IF rs = <<>>
            THEN Block(I2c_transaction(device_addr,
                            <<Write(reg_id), Write(cmd_buf.val), Read(resp_buf)>>), 1)
            ELSE IF rs[1].tag = "Err"
                 THEN Return(Err(CommandError_BusError(rs[1].val)), 1, 0)
                 ELSE LET r == payload_from_bytes(C, Filled(rs[1]))
                      IN IF r.tag = "Err"
                         THEN Return(Err(CommandError_SerializationError(r.val)), 1, 1)
                         ELSE Return(Ok(r.val), 1, 1)

\* i2c::blocking::invoke_command
i2c_blocking_invoke_command(device_addr, C, cmd, rs) ==
    LET cmd_buf == payload_to_bytes(invoking_parameters(cmd))
        resp_buf == ByteArray_new(C.rlen)
        reg_id == unwrap_unchecked(to_bytes(C.idw, id(C)))
    IN IF cmd_buf.tag = "Err"
       THEN Return(Err(CommandError_SerializationError(cmd_buf.val)), 1, 0)
       ELSE IF rs = <<>>
            THEN Block(I2c_transaction(device_addr,
                            <<Write(reg_id), Write(cmd_buf.val), Read(resp_buf)>>), 1)
            ELSE IF rs[1].tag = "Err"
                 THEN Return(Err(CommandError_BusError(rs[1].val)), 1, 0)
                 ELSE LET r == payload_from_bytes(C, Filled(rs[1]))
                      IN IF r.tag = "Err"
                         THEN Return(Err(CommandError_DeserializationError(r.val)), 1, 1)
                         ELSE Return(Ok(r.val), 1, 1)

\* spi::r#async::read_register, mutant: the canonical id is written, not the readable id
spi_async_read_register_canonical_id(R, rs) ==
    LET buf == ByteArray_new(R.rlen)
        reg_id == unwrap(to_bytes(R.idw, id(R)))
    IN IF rs = <<>>
       THEN Await(Spi_transaction(<<Write(reg_id), Read(buf)>>), 0)
       ELSE IF rs[1].tag = "Err"
            THEN Return(Err(ReadRegisterError_BusError(rs[1].val)), 0, 0)
            ELSE LET r == payload_from_bytes(R, Filled(rs[1]))
                 IN IF r.tag = "Err"
                    THEN Return(Err(ReadRegisterError_DeserializationError(r.val)), 0, 1)
                    ELSE Return(Ok(r.val), 0, 1)

\* spi::r#async::read_register, mutant: bytes that do not decode are read once more
spi_async_read_register_reread(R, rs) ==
    LET buf == ByteArray_new(R.rlen)
        reg_id == unwrap(to_bytes(R.idw, readable_id(R)))
        last == rs[Len(rs)]
    IN IF rs = <<>>
       THEN Await(Spi_transaction(<<Write(reg_id), Read(buf)>>), 0)
       ELSE IF last.tag = "Err"
            THEN Return(Err(ReadRegisterError_BusError(last.val)), 0, 0)
            ELSE LET r == payload_from_bytes(R, Filled(last))
                 IN IF r.tag = "Err"
                    THEN IF Len(rs) = 1
                         THEN Await(Spi_transaction(<<Write(reg_id), Read(buf)>>), 0)
                         ELSE Return(Err(ReadRegisterError_DeserializationError(r.val)), 0, 1)
                    ELSE Return(Ok(r.val), 0, 1)

\* spi::r#async::read_register
spi_async_read_register(R, rs) ==
    LET buf == ByteArray_new(R.rlen)
        reg_id == unwrap(to_bytes(R.idw, readable_id(R)))
    IN IF rs = <<>>
       THEN Await(Spi_transaction(<<Write(reg_id), Read(buf)>>), 0)
       ELSE IF rs[1].tag = "Err"
            THEN Return(Err(ReadRegisterError_BusError(rs[1].val)), 0, 0)
            ELSE LET r == payload_from_bytes(R, Filled(rs[1]))
                 IN IF r.tag = "Err"
                    THEN Return(Err(ReadRegisterError_DeserializationError(r.val)), 0, 1)
                    ELSE Return(Ok(r.val), 0, 1)

\* spi::r#async::write_register, mutant: the id is written and awaited first,
\* the payload is encoded and written after it
spi_async_write_register_await_between(R, register, rs) ==
    LET buf == payload_to_bytes(register)
        reg_id == unwrap(to_bytes(R.idw, writeable_id(R)))
    IN IF rs = <<>>
       THEN Await(Spi_transaction(<<Write(reg_id)>>), 0)
       ELSE IF rs[1].tag = "Err"
            THEN Return(Err(WriteRegisterError_BusError(rs[1].val)), 0, 0)
            ELSE IF buf.tag = "Err"
                 THEN Return(Err(WriteRegisterError_SerializationError(buf.val)), 1, 0)
                 ELSE IF Len(rs) = 1
                      THEN Await(Spi_transaction(<<Write(buf.val)>>), 1)
                      ELSE IF rs[2].tag = "Err"
                           THEN Return(Err(WriteRegisterError_BusError(rs[2].val)), 1, 0)
                           ELSE Return(Ok(<<>>), 1, 0)

\* spi::r#async::write_register, mutant: the id and the payload go out as one write
spi_async_write_register_joined(R, register, rs) ==
    LET buf == payload_to_bytes(register)
        reg_id == unwrap(to_bytes(R.idw, writeable_id(R)))
    IN IF buf.tag = "Err"
       THEN Return(Err(WriteRegisterError_SerializationError(buf.val)), 1, 0)
       ELSE IF rs = <<>>
            THEN Await(Spi_transaction(<<Write(reg_id \o buf.val)>>), 1)
            ELSE IF rs[1].tag = "Err"
                 THEN Return(Err(WriteRegisterError_BusError(rs[1].val)), 1, 0)
                 ELSE Return(Ok(<<>>), 1, 0)

\* spi::r#async::write_register
spi_async_write_register(R, register, rs) ==
    LET buf == payload_to_bytes(register)
        reg_id == unwrap(to_bytes(R.idw, writeable_id(R)))
    IN IF buf.tag = "Err"
       THEN Return(Err(WriteRegisterError_SerializationError(buf.val)), 1, 0)
       ELSE IF rs = <<>>
            THEN Await(Spi_transaction(<<Write(reg_id), Write(buf.val)>>), 1)
            ELSE IF rs[1].tag = "Err"
                 THEN Return(Err(WriteRegisterError_BusError(rs[1].val)), 1, 0)
                 ELSE Return(Ok(<<>>), 1, 0)

\* spi::r#async::invoke_command, mutant: a payload without bytes is not written
spi_async_invoke_command_skips_empty_payload(C, cmd, rs) ==
    LET cmd_buf == payload_to_bytes(invoking_parameters(cmd))
        resp_buf == ByteArray_new(C.rlen)
        reg_id == unwrap_unchecked(to_bytes(C.idw, id(C)))
    IN IF cmd_buf.tag = "Err"
       THEN Return(Err(CommandError_SerializationError(cmd_buf.val)), 1, 0)
       ELSE IF rs = <<>>
            THEN Await(Spi_transaction(
                            IF cmd_buf.val = <<>>
                            THEN <<Write(reg_id), Read(resp_buf)>>
                            ELSE <<Write(reg_id), Write(cmd_buf.val), Read(resp_buf)>>), 1)
            ELSE IF rs[1].tag = "Err"
                 THEN Return(Err(CommandError_BusError(rs[1].val)), 1, 0)
                 ELSE LET r == payload_from_bytes(C, Filled(rs[1]))
                      IN IF r.tag = "Err"
                         THEN Return(Err(CommandError_DeserializationError(r.val)), 1, 1)
                         ELSE Return(Ok(r.val), 1, 1)

\* spi::r#async::invoke_command
spi_async_invoke_command(C, cmd, rs) ==
    LET cmd_buf == payload_to_bytes(invoking_parameters(cmd))
        resp_buf == ByteArray_new(C.rlen)
        reg_id == unwrap_unchecked(to_bytes(C.idw, id(C)))
    IN IF cmd_buf.tag = "Err"
       THEN Return(Err(CommandError_SerializationError(cmd_buf.val)), 1, 0)
       ELSE IF rs = <<>>
            THEN Await(Spi_transaction(
                            <<Write(reg_id), Write(cmd_buf.val), Read(resp_buf)>>), 1)
            ELSE IF rs[1].tag = "Err"
                 THEN Return(Err(CommandError_BusError(rs[1].val)), 1, 0)
                 ELSE LET r == payload_from_bytes(C, Filled(rs[1]))
                      IN IF r.tag = "Err"
                         THEN Return(Err(CommandError_DeserializationError(r.val)), 1, 1)
                         ELSE Return(Ok(r.val), 1, 1)

\* spi::blocking::read_register, mutant: the buffer is read before the id is written
spi_blocking_read_register_read_first(R, rs) ==
    LET buf == ByteArray_new(R.rlen)
        reg_id == unwrap_unchecked(to_bytes(R.idw, readable_id(R)))
    IN IF rs = <<>>
       THEN Block(Spi_transaction(<<Read(buf), Write(reg_id)>>), 0)
       ELSE IF rs[1].tag = "Err"
            THEN Return(Err(ReadRegisterError_BusError(rs[1].val)), 0, 0)
            ELSE LET r == payload_from_bytes(R, Filled(rs[1]))
                 IN IF r.tag = "Err"
                    THEN Return(Err(ReadRegisterError_DeserializationError(r.val)), 0, 1)
                    ELSE Return(Ok(r.val), 0, 1)

\* spi::blocking::read_register
spi_blocking_read_register(R, rs) ==
    LET buf == ByteArray_new(R.rlen)
        reg_id == unwrap_unchecked(to_bytes(R.idw, readable_id(R)))
    IN IF rs = <<>>
       THEN Block(Spi_transaction(<<Write(reg_id), Read(buf)>>), 0)
       ELSE IF rs[1].tag = "Err"
            THEN Return(Err(ReadRegisterError_BusError(rs[1].val)), 0, 0)
            ELSE LET r == payload_from_bytes(R, Filled(rs[1]))
                 IN IF r.tag = "Err"
                    THEN Return(Err(ReadRegisterError_DeserializationError(r.val)), 0, 1)
                    ELSE Return(Ok(r.val), 0, 1)

\* spi::blocking::write_register, mutant: the payload is written before the id
spi_blocking_write_register_payload_first(R, register, rs) ==
    LET buf == payload_to_bytes(register)
        reg_id == unwrap_unchecked(to_bytes(R.idw, writeable_id(R)))
    IN IF buf.tag = "Err"
       THEN Return(Err(WriteRegisterError_SerializationError(buf.val)), 1, 0)
       ELSE IF rs = <<>>
            THEN Block(Spi_transaction(<<Write(buf.val), Write(reg_id)>>), 1)
            ELSE IF rs[1].tag = "Err"
                 THEN Return(Err(WriteRegisterError_BusError(rs[1].val)), 1, 0)
                 ELSE Return(Ok(<<>>), 1, 0)

\* spi::blocking::write_register
spi_blocking_write_register(R, register, rs) ==
    LET buf == payload_to_bytes(register)
        reg_id == unwrap_unchecked(to_bytes(R.idw, writeable_id(R)))
    IN IF buf.tag = "Err"
       THEN Return(Err(WriteRegisterError_SerializationError(buf.val)), 1, 0)
       ELSE IF rs = <<>>
            THEN Block(Spi_transaction(<<Write(reg_id), Write(buf.val)>>), 1)
            ELSE IF rs[1].tag = "Err"
                 THEN Return(Err(WriteRegisterError_BusError(rs[1].val)), 1, 0)
                 ELSE Return(Ok(<<>>), 1, 0)

\* spi::blocking::invoke_command, mutant: the bus call is issued before the
\* serialization result is looked at
spi_blocking_invoke_command_bus_first(C, cmd, rs) ==
    LET cmd_buf == payload_to_bytes(invoking_parameters(cmd))
        resp_buf == ByteArray_new(C.rlen)
        reg_id == unwrap_unchecked(to_bytes(C.idw, id(C)))
        bytes == IF cmd_buf.tag = "Err" THEN ByteArray_new(C.plen) ELSE cmd_buf.val
    IN IF rs = <<>>
       THEN Block(Spi_transaction(<<Write(reg_id), Write(bytes), Read(resp_buf)>>), 1)
       ELSE IF cmd_buf.tag = "Err"
            THEN Return(Err(CommandError_SerializationError(cmd_buf.val)), 1, 0)
            ELSE IF rs[1].tag = "Err"
                 THEN Return(Err(CommandError_BusError(rs[1].val)), 1, 0)
                 ELSE LET r == payload_from_bytes(C, Filled(rs[1]))
                      IN IF r.tag = "Err"
                         THEN Return(Err(CommandError_DeserializationError(r.val)), 1, 1)
                         ELSE Return(Ok(r.val), 1, 1)

\* spi::blocking::invoke_command, mutant: a command that is also a readable
\* register is invoked by its readable id
spi_blocking_invoke_command_readable_id(C, cmd, rs) ==
    LET cmd_buf == payload_to_bytes(invoking_parameters(cmd))
        resp_buf == ByteArray_new(C.rlen)
        reg_id == unwrap_unchecked(to_bytes(C.idw,
                        IF "rid" \in DOMAIN C THEN readable_id(C) ELSE id(C)))
    IN IF cmd_buf.tag = "Err"
       THEN Return(Err(CommandError_SerializationError(cmd_buf.val)), 1, 0)
       ELSE IF rs = <<>>
            THEN Block(Spi_transaction(
                            <<Write(reg_id), Write(cmd_buf.val), Read(resp_buf)>>), 1)
            ELSE IF rs[1].tag = "Err"
                 THEN Return(Err(CommandError_BusError(rs[1].val)), 1, 0)
                 ELSE LET r == payload_from_bytes(C, Filled(rs[1]))
                      IN IF r.tag = "Err"
                         THEN Return(Err(CommandError_DeserializationError(r.val)), 1, 1)
                         ELSE Return(Ok(r.val), 1, 1)

\* spi::blocking::invoke_command
spi_blocking_invoke_command(C, cmd, rs) ==
    LET cmd_buf == payload_to_bytes(invoking_parameters(cmd))
        resp_buf == ByteArray_new(C.rlen)
        reg_id == unwrap_unchecked(to_bytes(C.idw, id(C)))
    IN IF cmd_buf.tag = "Err"
       THEN Return(Err(CommandError_SerializationError(cmd_buf.val)), 1, 0)
       ELSE IF rs = <<>>
            THEN Block(Spi_transaction(
                            <<Write(reg_id), Write(cmd_buf.val), Read(resp_buf)>>), 1)
            ELSE IF rs[1].tag = "Err"
                 THEN Return(Err(CommandError_BusError(rs[1].val)), 1, 0)
                 ELSE LET r == payload_from_bytes(C, Filled(rs[1]))
                      IN IF r.tag = "Err"
                         THEN Return(Err(CommandError_DeserializationError(r.val)), 1, 1)
                         ELSE Return(Ok(r.val), 1, 1)

----------------------------------------------------------------------------
(* The earlier I2C helpers: src/src/embedded_hal.rs, src/src/slice.rs.      *)

\* the flag the earlier read helper sets in the id it writes: 0x40
ReadFlag == 64

\* bit k of the u8 v
Bit(v, k) == (v \div (2 ^ k)) % 2

\* u8 | u8
BitOr(a, b) ==
    LET bit(k) == IF Bit(a, k) = 1 \/ Bit(b, k) = 1 THEN 2 ^ k ELSE 0
    IN bit(0) + bit(1) + bit(2) + bit(3) + bit(4) + bit(5) + bit(6) + bit(7)

\* the array lengths the slice conversions are implemented for
SliceLengths == {1, 2, 4}

\* impl IntoSlice<N> for T: Into<uN>, mutant: most significant byte first
IntoSlice_into_slice_be(n, v) ==
    IF n = 1 THEN Ok(<<v[1]>>) ELSE Ok(to_be_bytes(8 * n, v))

\* impl IntoSlice<1>, IntoSlice<2>, IntoSlice<4> for T: Into<u8>, Into<u16>, Into<u32>
IntoSlice_into_slice(n, v) ==
    IF n = 1 THEN Ok(<<v[1]>>) ELSE Ok(to_le_bytes(8 * n, v))

\* impl FromSlice<1>, FromSlice<2>, FromSlice<4> for T: From<u8>, From<u16>, From<u32>
FromSlice_from_slice(n, bytes) ==
    IF n = 1 THEN Ok(<<bytes[1]>>) ELSE Ok(from_le_bytes(8 * n, bytes))

\* FromSlice::from_slice of a type built from an integer: least significant byte first
from_slice(R, bytes) ==
    IF R.dec = "strict" /\ \E i \in 1..Len(bytes) : bytes[i] = 255
    THEN Err("InvalidPattern")
    ELSE Ok(from_le_bytes(8 * R.rlen, bytes))

\* read_i2c_register: write_read of [R::id() | 0x40] and a buffer [0u8; N]
read_i2c_register(device_addr, R, rs) ==
    LET buf == [i \in 1..R.rlen |-> 0]
    IN IF rs = <<>>
       THEN Block(I2c_write_read(device_addr, <<BitOr(id(R)[1], ReadFlag)>>, buf), 0)
       ELSE IF rs[1].tag = "Err"
            THEN Return(Err(ReadRegisterError_BusError(rs[1].val)), 0, 0)
            ELSE LET r == from_slice(R, Filled(rs[1]))
                 IN IF r.tag = "Err"
                    THEN Return(Err(ReadRegisterError_DeserializationError(r.val)), 0, 1)
                    ELSE Return(Ok(r.val), 0, 1)

\* IntoSlice::into_slice of a type turned into an integer: least significant
\* byte first; the type's own conversion may refuse the value
into_slice(R, reg) ==
    IF reg.fault # "none" THEN Err(reg.fault)
    ELSE IntoSlice_into_slice(R.wlen, reg.raw)

\* write_i2c_register: transaction of [Write([R::id()]), Write(into_slice bytes)]
write_i2c_register(device_addr, R, reg, rs) ==
    LET buf == into_slice(R, reg)
    IN IF buf.tag = "Err"
       THEN Return(Err(WriteRegisterError_SerializationError(buf.val)), 1, 0)
       ELSE IF rs = <<>>
            THEN Block(I2c_transaction(device_addr,
                            <<Write(<<id(R)[1]>>), Write(buf.val)>>), 1)
            ELSE IF rs[1].tag = "Err"
                 THEN Return(Err(WriteRegisterError_BusError(rs[1].val)), 1, 0)
                 ELSE Return(Ok(<<>>), 1, 0)

\* FromByteArray::from_array / ToByteArray::to_array of a downstream type
from_array(R, bytes) == payload_from_bytes(R, bytes)
to_array(register) == payload_to_bytes(register)

\* ReadableI2cRegister::read_async
ReadableI2cRegister_read_async(device_addr, R, rs) ==
    LET buf == ByteArray_new(R.rlen)
    IN IF rs = <<>>
       THEN Await(I2c_write_read(device_addr, <<readable_id(R)[1]>>, buf), 0)
       ELSE IF rs[1].tag = "Err"
            THEN Return(Err(ReadRegisterError_BusError(rs[1].val)), 0, 0)
            ELSE LET r == from_array(R, Filled(rs[1]))
                 IN IF r.tag = "Err"
                    THEN Return(Err(ReadRegisterError_DeserializationError(r.val)), 0, 1)
                    ELSE Return(Ok(r.val), 0, 1)

\* ReadableI2cRegister::read
ReadableI2cRegister_read(device_addr, R, rs) ==
    LET buf == ByteArray_new(R.rlen)
    IN IF rs = <<>>
       THEN Block(I2c_write_read(device_addr, <<readable_id(R)[1]>>, buf), 0)
       ELSE IF rs[1].tag = "Err"
            THEN Return(Err(ReadRegisterError_BusError(rs[1].val)), 0, 0)
            ELSE LET r == from_array(R, Filled(rs[1]))
                 IN IF r.tag = "Err"
                    THEN Return(Err(ReadRegisterError_DeserializationError(r.val)), 0, 1)
                    ELSE Return(Ok(r.val), 0, 1)

\* WritableI2cRegister::write_async
WritableI2cRegister_write_async(device_addr, R, register, rs) ==
    LET buf == to_array(register)
    IN IF buf.tag = "Err"
       THEN Return(Err(WriteRegisterError_SerializationError(buf.val)), 1, 0)
       ELSE IF rs = <<>>
            THEN Await(I2c_transaction(device_addr,
                            <<Write(<<writeable_id(R)[1]>>), Write(buf.val)>>), 1)
            ELSE IF rs[1].tag = "Err"
                 THEN Return(Err(WriteRegisterError_BusError(rs[1].val)), 1, 0)
                 ELSE Return(Ok(<<>>), 1, 0)

\* WritableI2cRegister::write
WritableI2cRegister_write(device_addr, R, register, rs) ==
    LET buf == to_array(register)
    IN IF buf.tag = "Err"
       THEN Return(Err(WriteRegisterError_SerializationError(buf.val)), 1, 0)
       ELSE IF rs = <<>>
            THEN Block(I2c_transaction(device_addr,
                            <<Write(<<writeable_id(R)[1]>>), Write(buf.val)>>), 1)
            ELSE IF rs[1].tag = "Err"
                 THEN Return(Err(WriteRegisterError_BusError(rs[1].val)), 1, 0)
                 ELSE Return(Ok(<<>>), 1, 0)

----------------------------------------------------------------------------
(* Callers, arguments and the device's answers.                             *)

Callers == {1, 2}

Modes == {"async", "blocking"}

\* I2C device addresses the callers use
Addrs == {72, 29}

\* bytes a device answers a read with
DeviceByte == {1, 2, 255}

\* errors the bus driver reports
BusErrors == {"Nack", "Overrun"}

\* every way the device can fill a read buffer of n bytes
Fill(n, bytes) == [1..n -> bytes]

\* encodable payload values of n bytes
PayloadBytes(n) ==
    IF n = 0 THEN {<<>>} ELSE IF n = 1 THEN {<<7>>, <<255>>} ELSE {<<1, 2>>}

\* faults a payload's to_bytes reports
SerFaults == {"OutOfRange", "BadField"}

\* payload values of a type whose byte array has n bytes, some of them unencodable
Payloads(n) ==
    {Payload(b, "none") : b \in PayloadBytes(n)}
        \cup {Payload(ByteArray_new(n), f) : f \in SerFaults}

NoArg == Payload(<<>>, "none")

Input(fn, mode, addr, ty, arg) ==
    [fn |-> fn, mode |-> mode, addr |-> addr, ty |-> ty, arg |-> arg]

NoInput == Input("none", "blocking", NoAddr, Temperature, NoArg)

ReadInputs(modes, addrs, types) ==
    {Input("read_register", m, a, R, NoArg) : m \in modes, a \in addrs, R \in types}

WriteInputs(modes, addrs, types) ==
    UNION {{Input("write_register", m, a, R, v) : m \in modes, a \in addrs,
                                                   v \in Payloads(R.wlen)} : R \in types}

CommandInputs(modes, addrs, types) ==
    UNION {{Input("invoke_command", m, a, C, v) : m \in modes, a \in addrs,
                                                   v \in Payloads(C.plen)} : C \in types}

\* invocations of the command whose parameters and response are NoParameters
NoParametersInputs ==
    {Input("invoke_command", m, a, Reset, NoParameters) : m \in Modes, a \in Addrs}

\* invocations of the command that is also a register with its own opcodes
ProbeInputs == CommandInputs(Modes, {72}, {Probe})

\* reads of the registers with the widest ids
WideIdInputs == ReadInputs(Modes, {72}, WideIdTypes)

\* the calls of a caller that owns the bus handle
Inputs ==
    ReadInputs(Modes, Addrs, RegisterTypes)
        \cup WriteInputs(Modes, Addrs, RegisterTypes)
        \cup CommandInputs(Modes, Addrs, CommandTypes)
        \cup NoParametersInputs
        \cup WideIdInputs
        \cup ProbeInputs

\* the calls of two callers that share one bus
SharedInputs ==
    ReadInputs({"blocking"}, {72}, {Temperature})
        \cup WriteInputs({"async"}, {72}, {Temperature})
        \cup CommandInputs({"async"}, {72}, {SelfTest})

\* a register 0x2A of the earlier layout, held as an integer of n bytes
HalRegister(n) ==
    [name |-> "HalRegister", idw |-> 8, id |-> <<42>>, rid |-> NoOverride,
     wid |-> NoOverride, rlen |-> n, wlen |-> n, dec |-> "be"]

\* values of such a register: 0x07, 0x0102, 0x01020304, and ones its
\* conversion refuses
HalValues(n) ==
    {Payload(IF n = 1 THEN <<7>> ELSE IF n = 2 THEN <<258>> ELSE <<772, 258>>, "none")}
        \cup {Payload(ByteArray_new(NLimbs(8 * n)), f) : f \in SerFaults}

\* registers with a u8 id whose methods override an id, or none
HalTraitTypes ==
    {Temperature,
     [name |-> "Flagged", idw |-> 8, id |-> <<42>>, rid |-> <<106>>, wid |-> <<170>>,
      rlen |-> 1, wlen |-> 1, dec |-> "strict"]}

\* calls of the earlier layout: the helper functions and the trait methods
\* of registers with a u8 id, on I2C
EmbeddedHalInputs ==
    {Input("read_i2c_register", "blocking", a, R, NoArg) :
        a \in Addrs, R \in {T \in RegisterTypes : T.idw = 8}}
        \cup UNION {{Input("write_i2c_register", "blocking", 72, HalRegister(n), v) :
                        v \in HalValues(n)} : n \in SliceLengths}
        \cup {Input("ReadableI2cRegister::read", m, 72, R, NoArg) :
                m \in Modes, R \in HalTraitTypes}
        \cup UNION {{Input("WritableI2cRegister::write", m, 72, R, v) :
                        m \in Modes, v \in Payloads(R.wlen)} : R \in HalTraitTypes}

\* the transaction function a call names, resumed with the bus answers rs
Run(bus, inp, rs) ==
    LET cmd == [params |-> inp.arg]
    IN CASE inp.fn = "read_i2c_register" ->
                read_i2c_register(inp.addr, inp.ty, rs)
         [] inp.fn = "write_i2c_register" ->
                write_i2c_register(inp.addr, inp.ty, inp.arg, rs)
         [] inp.fn = "ReadableI2cRegister::read" /\ inp.mode = "async" ->
                ReadableI2cRegister_read_async(inp.addr, inp.ty, rs)
         [] inp.fn = "ReadableI2cRegister::read" /\ inp.mode = "blocking" ->
                ReadableI2cRegister_read(inp.addr, inp.ty, rs)
         [] inp.fn = "WritableI2cRegister::write" /\ inp.mode = "async" ->
                WritableI2cRegister_write_async(inp.addr, inp.ty, inp.arg, rs)
         [] inp.fn = "WritableI2cRegister::write" /\ inp.mode = "blocking" ->
                WritableI2cRegister_write(inp.addr, inp.ty, inp.arg, rs)
         [] bus = "i2c" /\ inp.mode = "async" /\ inp.fn = "read_register" ->
                i2c_async_read_register(inp.addr, inp.ty, rs)
         [] bus = "i2c" /\ inp.mode = "async" /\ inp.fn = "write_register" ->
                i2c_async_write_register(inp.addr, inp.ty, inp.arg, rs)
         [] bus = "i2c" /\ inp.mode = "async" /\ inp.fn = "invoke_command" ->
                i2c_async_invoke_command(inp.addr, inp.ty, cmd, rs)
         [] bus = "i2c" /\ inp.mode = "blocking" /\ inp.fn = "read_register" ->
                i2c_blocking_read_register(inp.addr, inp.ty, rs)
         [] bus = "i2c" /\ inp.mode = "blocking" /\ inp.fn = "write_register" ->
                i2c_blocking_write_register(inp.addr, inp.ty, inp.arg, rs)
         [] bus = "i2c" /\ inp.mode = "blocking" /\ inp.fn = "invoke_command" ->
                i2c_blocking_invoke_command(inp.addr, inp.ty, cmd, rs)
         [] bus = "spi" /\ inp.mode = "async" /\ inp.fn = "read_register" ->
                spi_async_read_register(inp.ty, rs)
         [] bus = "spi" /\ inp.mode = "async" /\ inp.fn = "write_register" ->
                spi_async_write_register(inp.ty, inp.arg, rs)
         [] bus = "spi" /\ inp.mode = "async" /\ inp.fn = "invoke_command" ->
                spi_async_invoke_command(inp.ty, cmd, rs)
         [] bus = "spi" /\ inp.mode = "blocking" /\ inp.fn = "read_register" ->
                spi_blocking_read_register(inp.ty, rs)
         [] bus = "spi" /\ inp.mode = "blocking" /\ inp.fn = "write_register" ->
                spi_blocking_write_register(inp.ty, inp.arg, rs)
         [] bus = "spi" /\ inp.mode = "blocking" /\ inp.fn = "invoke_command" ->
                spi_blocking_invoke_command(inp.ty, cmd, rs)

----------------------------------------------------------------------------
(* The state machine.                                                       *)

NoTrace == [ser |-> 0, deser |-> 0, awaits |-> 0]

NoCodecIn == [w |-> 8, kind |-> "none", data |-> <<>>]
NoCodecOut == [op |-> "none", first |-> NoResult, second |-> NoResult]

NoLibIn == [kind |-> "none"]
NoLibOut == [op |-> "none"]

TxInit ==
    /\ pc = [c \in Callers |-> "idle"]
    /\ call = [c \in Callers |-> NoInput]
    /\ busLog = [c \in Callers |-> <<>>]
    /\ resps = [c \in Callers |-> <<>>]
    /\ progress = [c \in Callers |-> 0]
    /\ reads = [c \in Callers |-> <<>>]
    /\ result = [c \in Callers |-> NoResult]
    /\ trace = [c \in Callers |-> NoTrace]
    /\ seq = [c \in Callers |-> 0]
    /\ wire = <<>>
    /\ owner = 0

Init ==
    /\ busKind \in {"i2c", "spi"}
    /\ TxInit
    /\ codecIn = NoCodecIn
    /\ codecOut = NoCodecOut
    /\ libIn = NoLibIn
    /\ libOut = NoLibOut

\* calls started so far on the bus
Started == seq[1] + seq[2]

\* the bus call of caller c that is in flight
InFlight(c) == busLog[c][Len(busLog[c])]

\* one step of a transaction function: it issued a bus call, or it returned
Advance(c, s) ==
    IF s.kind = "return"
    THEN /\ pc' = [pc EXCEPT ![c] = "done"]
         /\ result' = [result EXCEPT ![c] = s.res]
         /\ trace' = [trace EXCEPT ![c].ser = s.ser,
                                   ![c].deser = s.deser,
                                   ![c].awaits = IF resps'[c] = <<>> THEN 0 ELSE @]
         /\ busLog' = IF resps'[c] = <<>> THEN [busLog EXCEPT ![c] = <<>>] ELSE busLog
    ELSE /\ pc' = [pc EXCEPT ![c] = "bus"]
         /\ result' = [result EXCEPT ![c] = NoResult]
         /\ trace' = [trace EXCEPT ![c].ser = s.ser,
                                   ![c].deser = s.deser,
                                   ![c].awaits = IF resps'[c] = <<>>
                                                 THEN (IF s.kind = "await" THEN 1 ELSE 0)
                                                 ELSE @ + (IF s.kind = "await" THEN 1 ELSE 0)]
         /\ busLog' = [busLog EXCEPT ![c] = IF resps'[c] = <<>> THEN <<s.call>>
                                            ELSE Append(@, s.call)]

\* caller c calls a transaction function: it runs up to its bus call, or returns
Call(c, inp) ==
    /\ pc[c] \in {"idle", "done"}
    /\ Started < MaxCalls
    /\ call' = [call EXCEPT ![c] = inp]
    /\ seq' = [seq EXCEPT ![c] = @ + 1]
    /\ resps' = [resps EXCEPT ![c] = <<>>]
    /\ Advance(c, Run(busKind, inp, <<>>))
    /\ UNCHANGED <<busKind, progress, reads, wire, owner, codecVars, libVars>>

WireOp(c, op, ok) ==
    [caller |-> c, seq |-> seq[c], call |-> Len(busLog[c]), idx |-> progress[c] + 1,
     op |-> op.op, ok |-> ok]

\* the bus driver executes the next operation of c's call; the call's last
\* operation completes it and frees the bus
BusOpOk(c, bytes) ==
    /\ pc[c] = "bus"
    /\ owner \in {0, c}
    /\ LET op == InFlight(c).ops[progress[c] + 1]
           last == progress[c] + 1 = Len(InFlight(c).ops)
       IN \E data \in IF op.op = "Read" THEN Fill(Len(op.bytes), bytes) ELSE {<<>>} :
            LET got == IF op.op = "Read" THEN Append(reads[c], data) ELSE reads[c]
            IN /\ wire' = Append(wire, WireOp(c, op, TRUE))
               /\ IF last
                  THEN /\ resps' = [resps EXCEPT ![c] = Append(@, Ok(got))]
                       /\ pc' = [pc EXCEPT ![c] = "ready"]
                       /\ progress' = [progress EXCEPT ![c] = 0]
                       /\ reads' = [reads EXCEPT ![c] = <<>>]
                       /\ owner' = 0
                  ELSE /\ progress' = [progress EXCEPT ![c] = @ + 1]
                       /\ reads' = [reads EXCEPT ![c] = got]
                       /\ owner' = c
                       /\ UNCHANGED <<resps, pc>>
    /\ UNCHANGED <<busKind, call, busLog, result, trace, seq, codecVars, libVars>>

\* the next operation of c's call fails: the driver abandons the call
BusOpFail(c, e) ==
    /\ pc[c] = "bus"
    /\ owner \in {0, c}
    /\ wire' = Append(wire, WireOp(c, InFlight(c).ops[progress[c] + 1], FALSE))
    /\ resps' = [resps EXCEPT ![c] = Append(@, Err(e))]
    /\ pc' = [pc EXCEPT ![c] = "ready"]
    /\ progress' = [progress EXCEPT ![c] = 0]
    /\ reads' = [reads EXCEPT ![c] = <<>>]
    /\ owner' = 0
    /\ UNCHANGED <<busKind, call, busLog, result, trace, seq, codecVars, libVars>>

\* the bus call returned: the transaction function runs on from it
Resume(c) ==
    /\ pc[c] = "ready"
    /\ UNCHANGED resps
    /\ Advance(c, Run(busKind, call[c], resps[c]))
    /\ UNCHANGED <<busKind, call, progress, reads, seq, wire, owner, codecVars, libVars>>

Next ==
    \/ \E inp \in Inputs : Call(1, inp)
    \/ BusOpOk(1, DeviceByte)
    \/ \E e \in BusErrors : BusOpFail(1, e)
    \/ Resume(1)

Spec == Init /\ [][Next]_vars

\* the owner of an I2C handle also calls the functions of the earlier layout
NextEmbeddedHal ==
    \/ Next
    \/ /\ busKind = "i2c"
       /\ \E inp \in EmbeddedHalInputs : Call(1, inp)

SpecEmbeddedHal == Init /\ [][NextEmbeddedHal]_vars

\* two callers share the bus
NextShared ==
    \E c \in Callers :
        \/ \E inp \in SharedInputs : Call(c, inp)
        \/ BusOpOk(c, {1})
        \/ BusOpFail(c, "Nack")
        \/ Resume(c)

SpecShared == Init /\ [][NextShared]_vars

----------------------------------------------------------------------------
(* The byte-array conversions of the integer types, applied to sampled      *)
(* values and byte arrays of every width.                                   *)

\* integers of width w: every u8, and digit patterns for the wider types
UintSamples(w) ==
    IF w = 8 THEN {<<v>> : v \in Byte}
    ELSE {[j \in 1..NLimbs(w) |-> (a * j + b) % 65536] :
            a \in {0, 1, 4369, 65535}, b \in {0, 1, 255, 256, 4660, 32768, 65280, 65535}}

\* byte arrays of n bytes: every one-byte array, and byte patterns for the longer
ByteArraySamples(n) ==
    IF n = 1 THEN {<<v>> : v \in Byte}
    ELSE {[i \in 1..n |-> (a * i + b) % 256] :
            a \in {0, 1, 7, 16, 255}, b \in {0, 1, 18, 52, 128, 255}}

CodecInputs ==
    UNION {{[w |-> w, kind |-> "value", data |-> v] : v \in UintSamples(w)}
             \cup {[w |-> w, kind |-> "bytes", data |-> b] :
                     b \in ByteArraySamples(NBytes(w))} : w \in Widths}

CodecInit ==
    /\ busKind = "i2c"
    /\ TxInit
    /\ codecIn \in CodecInputs
    /\ codecOut = NoCodecOut
    /\ libIn = NoLibIn
    /\ libOut = NoLibOut

\* to_bytes of the value, then from_bytes of the bytes it gave
EncodeDecode ==
    /\ codecIn.kind = "value"
    /\ codecOut.op = "none"
    /\ LET enc == to_bytes(codecIn.w, codecIn.data)
       IN codecOut' = [op |-> "to_bytes", first |-> enc,
                       second |-> from_bytes(codecIn.w, unwrap(enc))]
    /\ UNCHANGED <<codecIn, txVars, libVars>>

\* from_bytes of the byte array, then to_bytes of the value it gave
DecodeEncode ==
    /\ codecIn.kind = "bytes"
    /\ codecOut.op = "none"
    /\ LET dec == from_bytes(codecIn.w, codecIn.data)
       IN codecOut' = [op |-> "from_bytes", first |-> dec,
                       second |-> to_bytes(codecIn.w, unwrap(dec))]
    /\ UNCHANGED <<codecIn, txVars, libVars>>

\* into_slice of a u8, u16 or u32 value, then from_slice of the array it gave
IntoFromSlice ==
    /\ codecIn.kind = "value"
    /\ NBytes(codecIn.w) \in SliceLengths
    /\ codecOut.op = "none"
    /\ LET enc == IntoSlice_into_slice(NBytes(codecIn.w), codecIn.data)
       IN codecOut' = [op |-> "into_slice", first |-> enc,
                       second |-> FromSlice_from_slice(NBytes(codecIn.w), enc.val)]
    /\ UNCHANGED <<codecIn, txVars, libVars>>

CodecNext == EncodeDecode \/ DecodeEncode \/ IntoFromSlice

SpecCodec == CodecInit /\ [][CodecNext]_vars

----------------------------------------------------------------------------
(* The trait methods and conversions of the library, applied to inputs      *)
(* drawn from the types and values a downstream crate can hand them.        *)

\* ids a downstream register type may declare or override with
(***************************************************************************)
(* The register attribute macro, src/regiface-macros/src/lib.rs.  A token  *)
(* stream is a sequence of tokens; an integer literal carries its value    *)
(* and its suffix, "" when it has none.  The other tokens are literals of  *)
(* another kind ("str", "float", "bool" for true and false), identifiers,  *)
(* and the punctuation "punct -", "punct +" and "comma".                   *)
(***************************************************************************)
IntLit(value, suffix) == [kind |-> "int", value |-> value, suffix |-> suffix]
Token(kind) == [kind |-> kind, value |-> <<>>, suffix |-> ""]

\* the outcome of a parser: the value or the message, and the tokens left
Parsed(val, rest) == [tag |-> "Ok", val |-> val, rest |-> rest]
ParseError(msg, rest) == [tag |-> "Err", val |-> msg, rest |-> rest]

\* a literal as syn holds it: the token, and whether a minus sign precedes it
Lit(neg, token) ==
    [kind |-> token.kind, neg |-> neg, value |-> token.value, suffix |-> token.suffix]

\* input.parse::<Lit>(), which LitInt's parser calls: a literal token, true
\* or false, or a minus sign followed by an integer or a float literal, is
\* consumed; any other token is left in the stream
Lit_parse(input) ==
    IF input = <<>>
    THEN ParseError("unexpected end of input, expected literal", <<>>)
    ELSE IF input[1].kind \in {"int", "float", "str", "bool"}
         THEN Parsed(Lit(FALSE, input[1]), Tail(input))
         ELSE IF /\ input[1].kind = "punct -"
                 /\ Len(input) >= 2
                 /\ input[2].kind \in {"int", "float"}
              THEN Parsed(Lit(TRUE, input[2]), SubSeq(input, 3, Len(input)))
              ELSE ParseError("expected literal", input)

\* input.parse::<LitInt>(): the literal when it is an integer; otherwise the
\* error names the start of the stream, or its end when the stream is empty
LitInt_parse(input) ==
    LET lit == Lit_parse(input)
    IN IF lit.tag = "Ok" /\ lit.val.kind = "int"
       THEN lit
       ELSE IF input = <<>>
            THEN ParseError("unexpected end of input, expected integer literal", lit.rest)
            ELSE ParseError("expected integer literal", lit.rest)

\* impl Parse for RegisterAttr, mutant: a literal without a suffix is a u8
RegisterAttr_parse_default_u8(input) ==
    LET r == LitInt_parse(input)
    IN IF r.tag = "Err"
       THEN r
       ELSE LET lit == r.val
                suffix == IF lit.suffix = "" THEN "u8" ELSE lit.suffix
            IN Parsed([value |-> lit, ty |-> suffix], r.rest)

\* impl Parse for RegisterAttr
RegisterAttr_parse(input) ==
    LET r == LitInt_parse(input)
    IN IF r.tag = "Err"
       THEN r
       ELSE LET lit == r.val
                suffix == lit.suffix
            IN IF suffix = ""
               THEN ParseError("Expected type suffix (e.g., u8, u16)", r.rest)
               ELSE Parsed([value |-> lit, ty |-> suffix], r.rest)

\* parse_macro_input!: the parser must consume the whole stream
parse_macro_input(r) ==
    IF r.tag = "Ok" /\ r.rest # <<>> THEN ParseError("unexpected token", r.rest) ELSE r

\* items an attribute is put on; DeriveInput parses the type declarations
Item(kind, name, generics) == [kind |-> kind, name |-> name, generics |-> generics]

DeriveInput_parse(item) ==
    IF item.kind \in {"struct", "enum", "union"}
    THEN Parsed(item, <<>>)
    ELSE ParseError("expected one of: struct, enum, union", <<>>)

\* what the macro returns: the tokens of a compile_error!, or the item and
\* the implementation of Register for it
CompileError(msg) == [kind |-> "compile_error", msg |-> msg]
Expanded(input, name, generics, ty, value) ==
    [kind |-> "tokens", item |-> input,
     impl |-> [trait |-> "regiface::Register", name |-> name, generics |-> generics,
               IdType |-> ty, id |-> value]]

\* #[register(..)], mutant: the id type is always u8
register_always_u8(attr, item) ==
    LET a == parse_macro_input(RegisterAttr_parse(attr))
        input == parse_macro_input(DeriveInput_parse(item))
    IN IF a.tag = "Err" THEN CompileError(a.val)
       ELSE IF input.tag = "Err" THEN CompileError(input.val)
       ELSE Expanded(input.val, input.val.name, input.val.generics, "u8", a.val.value)

\* #[register(..)]
register(attr, item) ==
    LET a == parse_macro_input(RegisterAttr_parse(attr))
        input == parse_macro_input(DeriveInput_parse(item))
    IN IF a.tag = "Err" THEN CompileError(a.val)
       ELSE IF input.tag = "Err" THEN CompileError(input.val)
       ELSE Expanded(input.val, input.val.name, input.val.generics, a.val.ty, a.val.value)

\* the integer types that are identifiers, with their widths
IdTypes == {"u8", "u16", "u32", "u64", "u128"}
IdTypeWidth(ty) ==
    CASE ty = "u8" -> 8 [] ty = "u16" -> 16 [] ty = "u32" -> 32
      [] ty = "u64" -> 64 [] ty = "u128" -> 128

\* the literal is a number the compiler can hold: it is below 2^128
Representable(value) == \A j \in DOMAIN value : j > NLimbs(128) => value[j] = 0

\* the literal fits the integer type of w bits
Fits(w, value) ==
    /\ w = 8 => value[1] < 256
    /\ \A j \in DOMAIN value : j > NLimbs(w) => value[j] = 0

\* the value of the expression a literal with an unsigned suffix of w bits
\* is: the digits of the literal beyond the width of the type are dropped
LiteralValue(w, value) ==
    IF w = 8
    THEN <<value[1] % 256>>
    ELSE [j \in 1..NLimbs(w) |-> IF j <= Len(value) THEN value[j] ELSE 0]

\* the register type the generated implementation makes of the item: IdType
\* is the suffix and id() returns the literal as a value of IdType
Implementor(impl) ==
    [name |-> impl.name, idw |-> IdTypeWidth(impl.IdType),
     id |-> LiteralValue(IdTypeWidth(impl.IdType), impl.id.value),
     rid |-> NoOverride, wid |-> NoOverride, rlen |-> 1, wlen |-> 1, dec |-> "be"]

IdSamples(w) ==
    IF w = 8 THEN {<<42>>, <<106>>, <<255>>} ELSE {<<0>>, <<4660>>, <<37428>>}

\* register types as downstream crates declare them: an id and, for each of
\* readable_id and writeable_id, either the default or an override
DeclaredRegisters ==
    RegisterTypes \cup
    UNION {{[name |-> "Declared", idw |-> w, id |-> i, rid |-> r, wid |-> x,
             rlen |-> 1, wlen |-> 1, dec |-> "be"] :
                i \in IdSamples(w),
                r \in {NoOverride} \cup IdSamples(w),
                x \in {NoOverride} \cup IdSamples(w)} : w \in {8, 16}}

\* cause values the detailed errors carry: the generic parameters B, S and D
\* take any type, so every variant is drawn with every cause
Causes == BusErrors \cup SerFaults \cup {"InvalidPattern"}

DetailedErrors ==
    UNION {{ReadRegisterError_BusError(e), ReadRegisterError_DeserializationError(e),
            WriteRegisterError_BusError(e), WriteRegisterError_SerializationError(e),
            CommandError_BusError(e), CommandError_SerializationError(e),
            CommandError_DeserializationError(e)} : e \in Causes}

\* bytes a holder of the mutable slice stores
StoreBytes == {0, 1, 255}

\* arguments of the attribute: integer literals with a suffix and without,
\* literals that do not fit their suffix, a minus sign before a literal,
\* other tokens, nothing, and a literal followed by more tokens
Literals ==
    {IntLit(<<42>>, "u8"), IntLit(<<1>>, "u8"), IntLit(<<4660>>, "u16"),
     IntLit(<<22136, 4660>>, "u32"), IntLit(Uptime.id, "u64"),
     IntLit(Signature.id, "u128"), IntLit(<<42>>, "i8"),
     IntLit(<<42>>, ""), IntLit(<<4660>>, "")}

OverflowingLiterals ==
    {IntLit(<<300>>, "u8"), IntLit(<<256>>, "u8"), IntLit(<<511>>, "u8"),
     IntLit(<<0, 1>>, "u16"),
     IntLit(<<0, 0, 0, 0, 0, 0, 0, 0, 1>>, "u128"),
     IntLit(<<0, 0, 0, 0, 0, 0, 0, 0, 1>>, "u8")}

AttrArguments ==
    {<<>>, <<Token("ident")>>, <<Token("str")>>, <<Token("float")>>, <<Token("bool")>>}
        \cup {<<lit>> : lit \in Literals \cup OverflowingLiterals}
        \cup {<<lit, Token("comma")>> : lit \in {IntLit(<<42>>, "u8"), IntLit(<<42>>, "")}}
        \cup {<<IntLit(<<42>>, "u8"), IntLit(<<4660>>, "u16")>>}
        \cup {<<Token("punct -"), lit>> :
                lit \in {IntLit(<<42>>, "u8"), IntLit(<<42>>, ""), IntLit(<<42>>, "i8")}}
        \cup {<<Token("punct -"), IntLit(<<42>>, "u8"), Token("comma")>>,
              <<Token("punct -"), Token("float")>>,
              <<Token("punct -")>>,
              <<Token("punct -"), Token("ident")>>,
              <<Token("punct -"), Token("str")>>,
              <<Token("punct -"), Token("punct -"), IntLit(<<42>>, "u8")>>,
              <<Token("punct +"), IntLit(<<42>>, "u8")>>}

AnnotatedItems ==
    {Item("struct", "TemperatureRegister", ""), Item("enum", "Mode", ""),
     Item("struct", "Channel", "<T>"), Item("fn", "helper", "")}

\* the level of the lint overflowing_literals in the crate of the item: the
\* compiler's default is deny
LintLevels == {"deny", "allow"}

LibInputs ==
    {[kind |-> "register", data |-> R] : R \in DeclaredRegisters}
        \cup {[kind |-> "attribute",
               data |-> [attr |-> a, item |-> i, overflowing_literals |-> l]] :
                a \in AttrArguments, i \in AnnotatedItems, l \in LintLevels}
        \cup {[kind |-> "error", data |-> e] : e \in DetailedErrors}
        \cup {[kind |-> "array", data |-> n] : n \in 0..MaxLen}

LibInit ==
    /\ busKind = "i2c"
    /\ TxInit
    /\ codecIn = NoCodecIn
    /\ codecOut = NoCodecOut
    /\ libIn \in LibInputs
    /\ libOut = NoLibOut

\* what readable_id() and writeable_id() of the type returned, <<>> while not called
NoIds == [op |-> "ids", readable |-> <<>>, writeable |-> <<>>]

\* R::readable_id() is called
ReadableId ==
    /\ libIn.kind = "register"
    /\ LET prev == IF libOut.op = "none" THEN NoIds ELSE libOut
       IN /\ prev.readable = <<>>
          /\ libOut' = [prev EXCEPT !.readable = readable_id(libIn.data)]
    /\ UNCHANGED <<libIn, txVars, codecVars>>

\* R::writeable_id() is called
WriteableId ==
    /\ libIn.kind = "register"
    /\ LET prev == IF libOut.op = "none" THEN NoIds ELSE libOut
       IN /\ prev.writeable = <<>>
          /\ libOut' = [prev EXCEPT !.writeable = writeable_id(libIn.data)]
    /\ UNCHANGED <<libIn, txVars, codecVars>>

\* Error::from(value) of a detailed error
ErrorFrom ==
    /\ libIn.kind = "error"
    /\ libOut.op = "none"
    /\ libOut' =
         [op |-> "from",
          error |-> CASE libIn.data.enum = "ReadRegisterError" ->
                            Error_from_ReadRegisterError(libIn.data)
                      [] libIn.data.enum = "WriteRegisterError" ->
                            Error_from_WriteRegisterError(libIn.data)
                      [] libIn.data.enum = "CommandError" ->
                            Error_from_CommandError(libIn.data)]
    /\ UNCHANGED <<libIn, txVars, codecVars>>

\* <[u8; N] as ByteArray>::new(), then as_ref() on the new array
NewArray ==
    /\ libIn.kind = "array"
    /\ libOut.op = "none"
    /\ LET array == ByteArray_new(libIn.data)
       IN libOut' = [op |-> "array", array |-> array, stored |-> <<>>,
                     view |-> as_ref(array), seen |-> Exposed(array, as_ref(array))]
    /\ UNCHANGED <<libIn, txVars, codecVars>>

\* a byte is stored at index i through as_mut(), then as_ref() is taken again
StoreThroughAsMut ==
    /\ libIn.kind = "array"
    /\ libOut.op = "array"
    /\ \E i \in 0..(as_mut(libOut.array).len - 1), b \in StoreBytes :
          LET array == Store(libOut.array, as_mut(libOut.array), i, b)
          IN libOut' = [op |-> "array", array |-> array, stored |-> <<i, b>>,
                        view |-> as_ref(array), seen |-> Exposed(array, as_ref(array))]
    /\ UNCHANGED <<libIn, txVars, codecVars>>

\* the compiler expands #[register(..)] on the item
ExpandRegister ==
    /\ libIn.kind = "attribute"
    /\ libOut.op = "none"
    /\ libOut' = [op |-> "register", out |-> register(libIn.data.attr, libIn.data.item),
                  ids |-> <<>>, transactions |-> 0]
    /\ UNCHANGED <<libIn, txVars, codecVars>>

\* the generated implementation compiles: its IdType is an identifier type,
\* the body of id() is not the negation of an unsigned literal, the literal
\* is below 2^128 ("integer literal is too large" otherwise, whatever the
\* lints), and it fits IdType unless the crate allows overflowing literals
Compiles ==
    /\ libIn.kind = "attribute"
    /\ libOut.op = "register"
    /\ libOut.out.kind = "tokens"
    /\ libOut.out.impl.IdType \in IdTypes
    /\ ~libOut.out.impl.id.neg
    /\ Representable(libOut.out.impl.id.value)
    /\ \/ Fits(IdTypeWidth(libOut.out.impl.IdType), libOut.out.impl.id.value)
       \/ libIn.data.overflowing_literals = "allow"

\* id() of the generated implementation is called
CallId ==
    /\ Compiles
    /\ Len(libOut.ids) <= MaxCalls
    /\ libOut' = [libOut EXCEPT !.ids =
                     Append(@, [IdType |-> libOut.out.impl.IdType,
                                value |-> id(Implementor(libOut.out.impl)),
                                after |-> libOut.transactions])]
    /\ UNCHANGED <<libIn, txVars, codecVars>>

\* i2c::blocking::read_register is called for the generated type: the call
\* issues its bus call, which the bus driver then executes or fails
TransactBetween ==
    /\ Compiles
    /\ pc[1] \in {"idle", "done"}
    /\ Started < MaxCalls
    /\ LET inp == Input("read_register", "blocking", 72,
                        Implementor(libOut.out.impl), NoArg)
       IN /\ call' = [call EXCEPT ![1] = inp]
          /\ seq' = [seq EXCEPT ![1] = @ + 1]
          /\ resps' = [resps EXCEPT ![1] = <<>>]
          /\ Advance(1, Run(busKind, inp, <<>>))
    /\ libOut' = [libOut EXCEPT !.transactions = @ + 1]
    /\ UNCHANGED <<busKind, progress, reads, wire, owner, codecVars, libIn>>

LibNext ==
    \/ ExpandRegister
    \/ CallId
    \/ TransactBetween
    \/ BusOpOk(1, DeviceByte)
    \/ \E e \in BusErrors : BusOpFail(1, e)
    \/ Resume(1)
    \/ ReadableId
    \/ WriteableId
    \/ ErrorFrom
    \/ NewArray
    \/ StoreThroughAsMut

SpecLib == LibInit /\ [][LibNext]_vars

----------------------------------------------------------------------------
(* What the claims are stated over: the environment's view of one call.     *)

\* caller c has started a call of fn
Calls(c, fn) == pc[c] # "idle" /\ call[c].fn = fn

\* the payload handed to the call cannot be encoded
SerFails(c) == call[c].arg.fault # "none"

\* the bus handle reported a failure during the call
BusFailed(c) == \E i \in DOMAIN resps[c] : resps[c][i].tag = "Err"

\* the bus handle completed a call successfully during the call
BusSucceeded(c) == \E i \in DOMAIN resps[c] : resps[c][i].tag = "Ok"

\* operations of c's current call on the wire
OnWire(c) == {i \in DOMAIN wire : wire[i].caller = c /\ wire[i].seq = seq[c]}

\* the device address the bus call of c must carry
ExpectedAddr(c) == IF busKind = "i2c" THEN call[c].addr ELSE NoAddr

\* the on-wire bytes of the fixtures' ids, most significant byte first
ReadIdBytes(T) ==
    CASE T.name = "Temperature" -> <<42>>
      [] T.name = "Config" -> <<146, 52>>
      [] T.name = "Status" -> <<18, 52, 86, 121>>
      [] T.name = "Uptime" -> <<1, 2, 3, 4, 5, 6, 7, 8>>
      [] T.name = "Signature" -> <<16, 17, 18, 19, 20, 21, 22, 23,
                                   24, 25, 26, 27, 28, 29, 30, 31>>

WriteIdBytes(T) ==
    CASE T.name = "Temperature" -> <<42>>
      [] T.name = "Config" -> <<18, 52>>
      [] T.name = "Status" -> <<18, 52, 86, 122>>

CommandIdBytes(T) ==
    CASE T.name = "SelfTest" -> <<240>>
      [] T.name = "Calibrate" -> <<190, 239>>
      [] T.name = "Reset" -> <<15>>
      [] T.name = "Probe" -> <<48>>

ZeroBytes(n) == [i \in 1..n |-> 0]

\* (v >> s) mod 256 for a shift s that is a multiple of 8, on the digits of v
ShiftByte(limbs, s) == (limbs[(s \div 16) + 1] \div (2 ^ (s % 16))) % 256

\* the bytes of an integer of width w, most significant first
BigEndian(w, limbs) == [i \in 1..(w \div 8) |-> ShiftByte(limbs, 8 * ((w \div 8) - i))]

\* the id bytes the bus call of c's current call writes first
IdOnBus(c) == busLog[c][1].ops[1].bytes

\* the value the fixtures' decoders give for the bytes b, or the error
Decoded(T, b) ==
    IF T.dec = "NoParameters" THEN Ok([raw |-> <<>>, fault |-> "none"])
    ELSE IF T.dec = "strict" /\ 255 \in {b[i] : i \in DOMAIN b}
         THEN Err("InvalidPattern")
         ELSE IF Len(b) = 1 THEN Ok(<<b[1]>>) ELSE Ok(<<256 * b[1] + b[2]>>)

----------------------------------------------------------------------------
(* C1: when the payload of a write_register call cannot be encoded, the     *)
(* call has returned WriteRegisterError::SerializationError carrying the    *)
(* payload's error, and the bus handle has seen no call and no operation    *)
(* of it.                                                                   *)
C1_WriteSerializationFailsBeforeBus ==
    \A c \in Callers :
        (Calls(c, "write_register") /\ SerFails(c))
            => /\ pc[c] = "done"
               /\ result[c].tag = "Err"
               /\ result[c].val = [enum |-> "WriteRegisterError",
                                   variant |-> "SerializationError",
                                   cause |-> call[c].arg.fault]
               /\ busLog[c] = <<>>
               /\ resps[c] = <<>>
               /\ OnWire(c) = {}

\* a write_register call with an unencodable payload has returned, after an
\* earlier call of the same caller did reach the bus
C1_Witness ==
    /\ Calls(1, "write_register") /\ SerFails(1)
    /\ pc[1] = "done"
    /\ call[1].arg.fault = "BadField"
    /\ wire # <<>>

(* C2: when the parameters of an invoke_command call cannot be encoded, the *)
(* call has returned CommandError::SerializationError, no bus call was      *)
(* issued, nothing was read and from_bytes was never invoked.               *)
C2_CommandSerializationFailsBeforeBus ==
    \A c \in Callers :
        (Calls(c, "invoke_command") /\ SerFails(c))
            => /\ pc[c] = "done"
               /\ result[c].tag = "Err"
               /\ result[c].val = [enum |-> "CommandError",
                                   variant |-> "SerializationError",
                                   cause |-> call[c].arg.fault]
               /\ busLog[c] = <<>>
               /\ resps[c] = <<>>
               /\ reads[c] = <<>>
               /\ OnWire(c) = {}
               /\ trace[c].deser = 0

C2_Witness ==
    /\ Calls(1, "invoke_command") /\ SerFails(1)
    /\ pc[1] = "done"
    /\ call[1].ty.name = "Calibrate"
    /\ busKind = "spi"

(* C3: read_register and invoke_command invoke from_bytes only once the bus *)
(* call has reported success; when the bus call fails the call returns      *)
(* BusError carrying the driver's error and from_bytes is never invoked.    *)
C3_DeserializeOnlyAfterBusSuccess ==
    \A c \in Callers :
        (Calls(c, "read_register") \/ Calls(c, "invoke_command"))
            => /\ trace[c].deser > 0 => (BusSucceeded(c) /\ ~BusFailed(c))
               /\ (pc[c] = "done" /\ BusFailed(c))
                    => /\ trace[c].deser = 0
                       /\ result[c].tag = "Err"
                       /\ result[c].val.variant = "BusError"
                       /\ result[c].val.enum = (IF call[c].fn = "read_register"
                                                THEN "ReadRegisterError"
                                                ELSE "CommandError")
                       /\ \E i \in DOMAIN resps[c] :
                            resps[c][i] = Err(result[c].val.cause)

\* a read_register call whose bus call failed with Overrun has returned
C3_Witness ==
    /\ Calls(1, "read_register")
    /\ pc[1] = "done"
    /\ resps[1] = <<Err("Overrun")>>
    /\ result[1].tag = "Err"

(* C4: a call issues at most one call on the bus handle: exactly one for    *)
(* read_register, exactly one for write_register and invoke_command when    *)
(* the payload encodes, none when it does not; a failed bus call is not     *)
(* followed by another one.                                                 *)
C4_AtMostOneBusCall ==
    \A c \in Callers :
        /\ Len(busLog[c]) <= 1
        /\ Len(resps[c]) <= Len(busLog[c])
        /\ \A i \in OnWire(c) : wire[i].call = 1
        /\ Calls(c, "read_register") => Len(busLog[c]) = 1
        /\ (Calls(c, "write_register") \/ Calls(c, "invoke_command"))
                => Len(busLog[c]) = (IF SerFails(c) THEN 0 ELSE 1)
        /\ BusFailed(c) => (pc[c] \in {"ready", "done"} /\ Len(resps[c]) = 1)

\* a call whose only bus call failed has returned
C4_Witness ==
    /\ pc[1] = "done"
    /\ Calls(1, "invoke_command")
    /\ BusFailed(1)
    /\ Len(busLog[1]) = 1
    /\ Cardinality(OnWire(1)) = 2

(* C5: write_register with an encodable payload issues one transaction      *)
(* whose operations are exactly the write of the writeable id's bytes       *)
(* followed by the write of the payload's bytes; id 0x2A with payload       *)
(* [0x07] gives write([0x2A]), write([0x07]).                               *)
C5_WriteRegisterOperations ==
    \A c \in Callers :
        (Calls(c, "write_register") /\ ~SerFails(c))
            => /\ busLog[c] = << [prim |-> "transaction", addr |-> ExpectedAddr(c),
                                  ops |-> << [op |-> "Write", bytes |-> WriteIdBytes(call[c].ty)],
                                             [op |-> "Write", bytes |-> call[c].arg.raw] >>] >>
               /\ (call[c].ty.name = "Temperature" /\ call[c].arg.raw = <<7>>)
                    => busLog[c][1].ops = << [op |-> "Write", bytes |-> <<42>>],
                                             [op |-> "Write", bytes |-> <<7>>] >>

\* write_register of [0x07] to the register 0x2A has returned Ok
C5_Witness ==
    /\ Calls(1, "write_register")
    /\ call[1].ty.name = "Temperature" /\ call[1].arg = Payload(<<7>>, "none")
    /\ pc[1] = "done"
    /\ result[1].tag = "Ok"
    /\ Cardinality(OnWire(1)) = 2

(* C6: invoke_command with encodable parameters issues one transaction of   *)
(* write(id bytes), write(parameter bytes), read(zeroed buffer of the       *)
(* response's length); when the bus succeeds the call returns from_bytes    *)
(* of the buffer as the bus filled it.                                      *)
C6_InvokeCommandOperations ==
    \A c \in Callers :
        (Calls(c, "invoke_command") /\ ~SerFails(c))
            => /\ busLog[c] = << [prim |-> "transaction", addr |-> ExpectedAddr(c),
                                  ops |-> << [op |-> "Write", bytes |-> CommandIdBytes(call[c].ty)],
                                             [op |-> "Write", bytes |-> call[c].arg.raw],
                                             [op |-> "Read", bytes |-> ZeroBytes(call[c].ty.rlen)] >>] >>
               /\ (pc[c] = "done" /\ BusSucceeded(c))
                    => LET want == Decoded(call[c].ty, resps[c][1].val[1])
                       IN /\ Len(resps[c][1].val[1]) = call[c].ty.rlen
                          /\ IF want.tag = "Ok"
                             THEN result[c].tag = "Ok" /\ result[c].val = want.val
                             ELSE /\ result[c].tag = "Err"
                                  /\ result[c].val = [enum |-> "CommandError",
                                                      variant |-> "DeserializationError",
                                                      cause |-> want.val]

\* the command 0xF0 without parameters has returned its one-byte response
C6_Witness ==
    /\ Calls(1, "invoke_command")
    /\ call[1].ty.name = "SelfTest"
    /\ pc[1] = "done"
    /\ ~SerFails(1)
    /\ busLog[1][1].ops = << [op |-> "Write", bytes |-> <<240>>],
                            [op |-> "Write", bytes |-> <<>>],
                            [op |-> "Read", bytes |-> <<0>>] >>
    /\ result[1].tag = "Ok"
    /\ result[1].val = <<2>>

(* C7: read_register issues a single bus call that writes the readable id's *)
(* bytes and reads the register's length into a zeroed buffer (write_read   *)
(* on I2C, a transaction of write and read on SPI); when the bus succeeds   *)
(* the call returns from_bytes of the buffer as the bus filled it: register *)
(* 0x2A answering [0x01, 0x02] gives 0x0102.                                *)
C7_ReadRegisterOperation ==
    \A c \in Callers :
        Calls(c, "read_register")
            => /\ busLog[c] = << [prim |-> IF busKind = "i2c" THEN "write_read"
                                           ELSE "transaction",
                                  addr |-> ExpectedAddr(c),
                                  ops |-> << [op |-> "Write", bytes |-> ReadIdBytes(call[c].ty)],
                                             [op |-> "Read", bytes |-> ZeroBytes(call[c].ty.rlen)] >>] >>
               /\ (pc[c] = "done" /\ BusSucceeded(c))
                    => LET got == resps[c][1].val[1]
                           want == Decoded(call[c].ty, got)
                       IN /\ Len(got) = call[c].ty.rlen
                          /\ IF want.tag = "Ok"
                             THEN result[c].tag = "Ok" /\ result[c].val = want.val
                             ELSE /\ result[c].tag = "Err"
                                  /\ result[c].val = [enum |-> "ReadRegisterError",
                                                      variant |-> "DeserializationError",
                                                      cause |-> want.val]
                          /\ (call[c].ty.name = "Temperature" /\ got = <<1, 2>>)
                                => (result[c].tag = "Ok" /\ result[c].val = <<258>>)

\* register 0x2A has been read on I2C, the device answering [0x01, 0x02]
C7_Witness ==
    /\ busKind = "i2c"
    /\ Calls(1, "read_register")
    /\ call[1].ty.name = "Temperature"
    /\ pc[1] = "done"
    /\ busLog[1][1].ops = << [op |-> "Write", bytes |-> <<42>>],
                            [op |-> "Read", bytes |-> <<0, 0>>] >>
    /\ resps[1] = <<Ok(<< <<1, 2>> >>)>>
    /\ result[1].tag = "Ok"
    /\ result[1].val = <<258>>

\* the phases of a call as the environment saw them fail
SerPhaseFailed(c) == call[c].fn \in {"write_register", "invoke_command"} /\ SerFails(c)

BusPhaseFailed(c) == busLog[c] # <<>> /\ BusFailed(c)

DeserPhaseFailed(c) ==
    /\ call[c].fn \in {"read_register", "invoke_command"}
    /\ BusSucceeded(c)
    /\ Decoded(call[c].ty, resps[c][1].val[1]).tag = "Err"

Tag(c) == IF result[c].tag = "Err" THEN result[c].val.variant ELSE result[c].tag

(* C8: the tag a call returns names the phase that failed: it is            *)
(* SerializationError exactly when the payload did not encode, BusError     *)
(* exactly when the bus call was issued and failed, DeserializationError    *)
(* exactly when the bus call succeeded and the bytes did not decode, and Ok *)
(* exactly when no phase failed; no call has two failed phases.             *)
C8_ErrorTagNamesFailedPhase ==
    \A c \in Callers :
        /\ ~(SerPhaseFailed(c) /\ BusPhaseFailed(c))
        /\ ~(SerPhaseFailed(c) /\ DeserPhaseFailed(c))
        /\ ~(BusPhaseFailed(c) /\ DeserPhaseFailed(c))
        /\ pc[c] = "done"
            => /\ Tag(c) = "SerializationError" <=> SerPhaseFailed(c)
               /\ Tag(c) = "BusError" <=> BusPhaseFailed(c)
               /\ Tag(c) = "DeserializationError" <=> DeserPhaseFailed(c)
               /\ Tag(c) = "Ok"
                    <=> ~(SerPhaseFailed(c) \/ BusPhaseFailed(c) \/ DeserPhaseFailed(c))
               /\ result[c].tag = "Err"
                    => result[c].val.enum =
                         (CASE call[c].fn = "read_register" -> "ReadRegisterError"
                            [] call[c].fn = "write_register" -> "WriteRegisterError"
                            [] call[c].fn = "invoke_command" -> "CommandError")

\* a blocking I2C invoke_command whose response did not decode has returned
C8_Witness ==
    /\ busKind = "i2c"
    /\ Calls(1, "invoke_command")
    /\ call[1].mode = "blocking"
    /\ pc[1] = "done"
    /\ DeserPhaseFailed(1)
    /\ Tag(1) = "DeserializationError"

(* C9: on a shared bus with an atomic transaction primitive, the operations *)
(* of one call are contiguous in the bus-level trace: no operation of       *)
(* another call lies between a call's id write and its payload write or     *)
(* read.                                                                    *)
C9_CallOperationsContiguous ==
    \A i, j \in DOMAIN wire :
        (i < j /\ wire[i].caller = wire[j].caller /\ wire[i].seq = wire[j].seq)
            => \A k \in i..j :
                 wire[k].caller = wire[i].caller /\ wire[k].seq = wire[i].seq

\* caller 2 is inside its bus call, none of its operations executed, while
\* caller 1's transaction has written its id and not yet its payload
C9_Witness ==
    /\ pc[1] = "bus" /\ pc[2] = "bus"
    /\ owner = 1
    /\ progress[1] = 1 /\ progress[2] = 0
    /\ OnWire(2) = {}
    /\ Cardinality(OnWire(1)) = 1

(* C10: for every width, from_bytes(to_bytes(v)) gives back v and           *)
(* to_bytes(from_bytes(b)) gives back b.                                    *)
C10_ByteArrayRoundTrip ==
    /\ codecOut.op = "to_bytes"
        => /\ codecOut.first.tag = "Ok"
           /\ Len(codecOut.first.val) * 8 = codecIn.w
           /\ codecOut.second = Ok(codecIn.data)
    /\ codecOut.op = "from_bytes"
        => /\ codecOut.first.tag = "Ok"
           /\ codecOut.second = Ok(codecIn.data)

\* 0x1234u16 went to [0x12, 0x34] and back
C10_Witness ==
    /\ codecIn = [w |-> 16, kind |-> "value", data |-> <<4660>>]
    /\ codecOut.op = "to_bytes"
    /\ codecOut.first = Ok(<<18, 52>>)
    /\ codecOut.second = Ok(<<4660>>)

(* C11: to_bytes of an unsigned integer of width W never fails and gives    *)
(* W/8 bytes, byte i being (v >> (8*(W/8-1-i))) mod 256; from_bytes never   *)
(* fails and undoes it: it gives the integer whose big-endian bytes it was  *)
(* handed.                                                                  *)
C11_BigEndianInfallible ==
    LET n == codecIn.w \div 8
    IN /\ codecOut.op = "to_bytes"
           => /\ codecOut.first.tag = "Ok"
              /\ Len(codecOut.first.val) = n
              /\ \A i \in 0..(n - 1) :
                    codecOut.first.val[i + 1] = ShiftByte(codecIn.data, 8 * (n - 1 - i))
              /\ codecOut.second.tag = "Ok"
              /\ codecOut.second.val = codecIn.data
       /\ codecOut.op = "from_bytes"
           => /\ codecOut.first.tag = "Ok"
              /\ \A i \in 0..(n - 1) :
                    ShiftByte(codecOut.first.val, 8 * (n - 1 - i)) = codecIn.data[i + 1]
              /\ codecOut.second.tag = "Ok"
              /\ codecOut.second.val = codecIn.data

\* 0x34562345u32 became [0x34, 0x56, 0x23, 0x45], and the bytes gave it back
C11_Witness ==
    /\ codecIn = [w |-> 32, kind |-> "value", data |-> <<9029, 13398>>]
    /\ codecOut.op = "to_bytes"
    /\ codecOut.first = Ok(<<52, 86, 35, 69>>)
    /\ codecOut.second = Ok(<<9029, 13398>>)

(* C12: readable_id() returns id() unless the type overrides it, and then   *)
(* the override; likewise writeable_id(); an override of one of the two     *)
(* leaves the other returning id().                                         *)
C12_IdDefaultsAreIndependent ==
    (libIn.kind = "register" /\ libOut.op = "ids")
        => LET R == libIn.data
               read == libOut.readable
               written == libOut.writeable
           IN /\ read # <<>>
                  => /\ R.rid = NoOverride => read = R.id
                     /\ R.rid # NoOverride => read = R.rid
              /\ written # <<>>
                  => /\ R.wid = NoOverride => written = R.id
                     /\ R.wid # NoOverride => written = R.wid
              /\ (read # <<>> /\ written # <<>> /\ R.rid # NoOverride /\ R.wid = NoOverride)
                  => written = R.id
              /\ (read # <<>> /\ written # <<>> /\ R.wid # NoOverride /\ R.rid = NoOverride)
                  => read = R.id

\* a type with id 0x1234 overriding only readable_id, to 0x9234: both methods
\* were called, writeable_id() gave 0x1234
C12_Witness ==
    /\ libIn.kind = "register"
    /\ libIn.data = Config
    /\ libOut.op = "ids"
    /\ libOut.readable = <<37428>>
    /\ libOut.writeable = <<4660>>

\* the ids of a register type as bytes on the bus
ReadOpcode(R) == BigEndian(R.idw, R.rid)
WriteOpcode(R) == BigEndian(R.idw, R.wid)
CanonicalId(R) == BigEndian(R.idw, R.id)

\* R overrides both ids, with opcodes that differ from each other and from id()
DistinctOverrides(R) ==
    /\ R.rid # NoOverride /\ R.wid # NoOverride
    /\ R.rid # R.wid /\ R.rid # R.id /\ R.wid # R.id

\* caller c, having read a register, starts a write of the same register type
WriteFollowsRead(c) ==
    /\ pc[c] = "done" /\ call[c].fn = "read_register" /\ busLog[c] # <<>>
    /\ seq'[c] = seq[c] + 1
    /\ call'[c].fn = "write_register" /\ call'[c].ty = call[c].ty
    /\ busLog'[c] # <<>>

(* C13: the id bytes a read_register call writes are those of readable_id() *)
(* and the id bytes a write_register call writes are those of               *)
(* writeable_id(), an override showing on the bus in place of id(); when a  *)
(* write follows a read of a type with distinct overrides, the first call   *)
(* carried the read opcode and the second carries the write opcode, neither *)
(* of them the canonical id.                                                *)
C13_IdBytesFollowOverrides ==
    /\ [](\A c \in Callers :
            LET R == call[c].ty
            IN /\ (Calls(c, "read_register") /\ busLog[c] # <<>>)
                    => IdOnBus(c) = (IF R.rid = NoOverride THEN CanonicalId(R)
                                     ELSE ReadOpcode(R))
               /\ (Calls(c, "write_register") /\ busLog[c] # <<>>)
                    => IdOnBus(c) = (IF R.wid = NoOverride THEN CanonicalId(R)
                                     ELSE WriteOpcode(R)))
    /\ [][\A c \in Callers :
            (WriteFollowsRead(c) /\ DistinctOverrides(call[c].ty))
                => LET R == call[c].ty
                       first == busLog[c][1].ops[1].bytes
                       second == busLog'[c][1].ops[1].bytes
                   IN /\ first = ReadOpcode(R) /\ second = WriteOpcode(R)
                      /\ first # second
                      /\ first # CanonicalId(R) /\ second # CanonicalId(R)]_vars

\* after a completed read, a write of the register with read opcode
\* 0x12345679 and write opcode 0x1234567A is on the bus under the latter
C13_Witness ==
    /\ seq[1] = 2
    /\ Len(wire) >= 2
    /\ wire[1].op = "Write" /\ wire[2].op = "Read" /\ wire[2].seq = 1 /\ wire[2].ok
    /\ Calls(1, "write_register")
    /\ call[1].ty = Status
    /\ busLog[1] # <<>>
    /\ IdOnBus(1) = <<18, 52, 86, 122>>

\* caller c is in a call of one of the library's functions that read a register
ReadsRegister(c) ==
    pc[c] # "idle" /\ call[c].fn \in {"read_register", "read_i2c_register",
                                       "ReadableI2cRegister::read"}

(* C14: a function reading a register writes exactly the bytes of the       *)
(* register's readable id, with no flag bit of its own combined into them:  *)
(* for a type that does not override readable_id they are the bytes of      *)
(* id(), and a flag shows on the bus only through an override.              *)
C14_ReadWritesReadableIdOnly ==
    \A c \in Callers :
        (ReadsRegister(c) /\ busLog[c] # <<>>)
            => LET R == call[c].ty
               IN IdOnBus(c) = (IF R.rid = NoOverride THEN CanonicalId(R)
                                ELSE ReadOpcode(R))

(* C15: a NoParameters value encodes without error to a payload of no       *)
(* bytes, and invoke_command takes NoParameters both as the parameters of   *)
(* a command (it writes the empty payload after the id and never returns    *)
(* SerializationError) and as its response (it reads into a buffer of no    *)
(* bytes and, the bus succeeding, returns Ok(NoParameters), never           *)
(* DeserializationError).                                                   *)
C15_NoParametersBothWays ==
    \A c \in Callers :
        Calls(c, "invoke_command")
            => /\ call[c].arg = [raw |-> <<>>, fault |-> "none"]
                    => /\ trace[c].ser = 1
                       /\ busLog[c] # <<>>
                       /\ Len(busLog[c][1].ops) = 3
                       /\ busLog[c][1].ops[2].op = "Write"
                       /\ Len(busLog[c][1].ops[2].bytes) = 0
                       /\ pc[c] = "done" => Tag(c) # "SerializationError"
               /\ (call[c].ty.dec = "NoParameters" /\ busLog[c] # <<>>)
                    => /\ busLog[c][1].ops[3].op = "Read"
                       /\ Len(busLog[c][1].ops[3].bytes) = 0
                       /\ (pc[c] = "done" /\ BusSucceeded(c))
                            => /\ trace[c].deser = 1
                               /\ result[c].tag = "Ok"
                               /\ result[c].val = [raw |-> <<>>, fault |-> "none"]

\* the command 0x0F, NoParameters both ways, has been invoked and returned Ok
C15_Witness ==
    /\ Calls(1, "invoke_command")
    /\ call[1].ty.name = "Reset"
    /\ call[1].arg = NoParameters
    /\ pc[1] = "done"
    /\ busLog[1][1].ops = << [op |-> "Write", bytes |-> <<15>>],
                            [op |-> "Write", bytes |-> <<>>],
                            [op |-> "Read", bytes |-> <<>>] >>
    /\ result[1].tag = "Ok"
    /\ result[1].val = NoParameters

(* C16: the conversion of a ReadRegisterError, WriteRegisterError or        *)
(* CommandError into Error gives the kind named like the variant and        *)
(* nothing of the cause, whatever the cause; a CommandError of              *)
(* serialization never gives DeserializationError, nor the reverse.         *)
C16_ErrorKeepsKindOnly ==
    (libIn.kind = "error" /\ libOut.op = "from")
        => /\ DOMAIN libOut.error = {"enum", "variant"}
           /\ libOut.error.enum = "Error"
           /\ libOut.error.variant = libIn.data.variant
           /\ libIn.data.enum = "CommandError"
                => /\ libIn.data.variant = "SerializationError"
                        => libOut.error.variant # "DeserializationError"
                   /\ libIn.data.variant = "DeserializationError"
                        => libOut.error.variant # "SerializationError"

\* CommandError::SerializationError("OutOfRange") became Error::SerializationError
C16_Witness ==
    /\ libIn.kind = "error"
    /\ libIn.data.enum = "CommandError"
    /\ libIn.data.variant = "SerializationError"
    /\ libIn.data.cause = "OutOfRange"
    /\ libOut.op = "from"
    /\ libOut.error.enum = "Error"
    /\ libOut.error.variant = "SerializationError"

\* the current call of c as the function of the given mode runs it on the bus
\* answers rs
Variant(c, mode, rs) == Run(busKind, [call[c] EXCEPT !.mode = mode], rs)

\* two results are the same value or the same error
SameResult(r1, r2) ==
    /\ r1.tag = r2.tag
    /\ r1.tag = "Ok" => r1.val = r2.val
    /\ r1.tag = "Err" => /\ r1.val.enum = r2.val.enum
                         /\ r1.val.variant = r2.val.variant
                         /\ r1.val.cause = r2.val.cause

(* C17: for every operation on either bus, the async and the blocking       *)
(* function, run on the same type, arguments and bus answers, issue the     *)
(* same bus call (same primitive, address and operations in the same order) *)
(* at the same point and return the same result or the same error; the call *)
(* observed on the bus and the result returned are those of both.           *)
C17_BlockingMatchesAsync ==
    \A c \in Callers :
        (pc[c] # "idle" /\ call[c].fn \in {"read_register", "write_register",
                                            "invoke_command"})
            => /\ \A k \in 0..Len(resps[c]) :
                    LET rs == SubSeq(resps[c], 1, k)
                        a == Variant(c, "async", rs)
                        b == Variant(c, "blocking", rs)
                    IN /\ (a.kind = "await" /\ b.kind = "block")
                            \/ (a.kind = "return" /\ b.kind = "return")
                       /\ a.call = b.call
                       /\ SameResult(a.res, b.res)
                       /\ k < Len(busLog[c]) => busLog[c][k + 1] = b.call
               /\ pc[c] = "done"
                    => /\ SameResult(result[c], Variant(c, "async", resps[c]).res)
                       /\ SameResult(result[c], Variant(c, "blocking", resps[c]).res)

\* a blocking SPI read has returned a value; the async function gives the same
\* call and the same value on the same answer
C17_Witness ==
    /\ busKind = "spi"
    /\ Calls(1, "read_register")
    /\ call[1].mode = "blocking"
    /\ call[1].ty.name = "Config"
    /\ pc[1] = "done"
    /\ result[1].tag = "Ok"
    /\ Variant(1, "async", <<>>).kind = "await"
    /\ Variant(1, "async", <<>>).call = busLog[1][1]
    /\ Variant(1, "async", resps[1]).res.tag = "Ok"
    /\ Variant(1, "async", resps[1]).res.val = result[1].val

\* the payload conversions a call of fn makes before its bus call
SerBeforeBus(fn) == IF fn = "read_register" THEN 0 ELSE 1

(* C18: an async function suspends at most once, and only in its bus call:  *)
(* when it is suspended the payload is already encoded and nothing is       *)
(* decoded yet; once the bus call has returned it decodes and completes     *)
(* without suspending again; a call whose payload does not encode           *)
(* completes without having suspended.  A blocking function never suspends. *)
C18_OneSuspensionPoint ==
    /\ [](\A c \in Callers :
            (pc[c] # "idle" /\ call[c].fn \in {"read_register", "write_register",
                                                "invoke_command"})
                => /\ trace[c].awaits <= 1
                   /\ call[c].mode = "blocking" => trace[c].awaits = 0
                   /\ call[c].mode = "async"
                        => /\ trace[c].awaits = Len(busLog[c])
                           /\ pc[c] = "bus"
                                => /\ trace[c].awaits = 1
                                   /\ trace[c].ser = SerBeforeBus(call[c].fn)
                                   /\ trace[c].deser = 0
                           /\ trace[c].deser # 0
                                => /\ pc[c] = "done"
                                   /\ trace[c].deser = 1
                                   /\ trace[c].awaits = 1
                                   /\ BusSucceeded(c)
                           /\ SerPhaseFailed(c)
                                => /\ pc[c] = "done"
                                   /\ trace[c].awaits = 0
                                   /\ OnWire(c) = {})
    /\ [][\A c \in Callers :
            (call[c].mode = "async" /\ pc[c] = "ready" /\ pc'[c] # pc[c])
                => (pc'[c] = "done" /\ trace'[c].awaits = trace[c].awaits)]_vars

\* an async invoke_command has been suspended once, in its bus call, and has
\* decoded the response after it
C18_Witness ==
    /\ Calls(1, "invoke_command")
    /\ call[1].mode = "async"
    /\ pc[1] = "done"
    /\ trace[1] = [ser |-> 1, deser |-> 1, awaits |-> 1]
    /\ Cardinality(OnWire(1)) = 3

\* the bus call a call is to issue, from its function, type, address and
\* argument alone
ExpectedBusCall(bus, inp) ==
    CASE inp.fn = "read_register" ->
            [prim |-> IF bus = "i2c" THEN "write_read" ELSE "transaction",
             addr |-> IF bus = "i2c" THEN inp.addr ELSE NoAddr,
             ops |-> << [op |-> "Write", bytes |-> ReadIdBytes(inp.ty)],
                        [op |-> "Read", bytes |-> ZeroBytes(inp.ty.rlen)] >>]
      [] inp.fn = "write_register" ->
            [prim |-> "transaction",
             addr |-> IF bus = "i2c" THEN inp.addr ELSE NoAddr,
             ops |-> << [op |-> "Write", bytes |-> WriteIdBytes(inp.ty)],
                        [op |-> "Write", bytes |-> inp.arg.raw] >>]
      [] inp.fn = "invoke_command" ->
            [prim |-> "transaction",
             addr |-> IF bus = "i2c" THEN inp.addr ELSE NoAddr,
             ops |-> << [op |-> "Write", bytes |-> CommandIdBytes(inp.ty)],
                        [op |-> "Write", bytes |-> inp.arg.raw],
                        [op |-> "Read", bytes |-> ZeroBytes(inp.ty.rlen)] >>]

\* the error type of a function
ErrorEnum(fn) ==
    CASE fn = "read_register" -> "ReadRegisterError"
      [] fn = "write_register" -> "WriteRegisterError"
      [] fn = "invoke_command" -> "CommandError"

\* the call's payload does not encode: the call is to return without the bus
Unencodable(inp) ==
    inp.fn \in {"write_register", "invoke_command"} /\ inp.arg.fault # "none"

\* what a call is to return on the answer the bus gave to its bus call, from
\* its function, type and that answer alone
ExpectedResult(inp, answer) ==
    IF answer.tag = "Err"
    THEN Err([enum |-> ErrorEnum(inp.fn), variant |-> "BusError", cause |-> answer.val])
    ELSE IF inp.fn = "write_register"
         THEN Ok(<<>>)
         ELSE LET want == Decoded(inp.ty, answer.val[1])
              IN IF want.tag = "Ok"
                 THEN want
                 ELSE Err([enum |-> ErrorEnum(inp.fn), variant |-> "DeserializationError",
                           cause |-> want.val])

\* an earlier call of c was made on the handle, and left operations on the bus
HasHistory(c) == seq[c] >= 2 /\ \E i \in DOMAIN wire : wire[i].caller = c /\ wire[i].seq < seq[c]

(* C19: what a call puts on the bus and what it returns are determined by   *)
(* its own function, type, arguments and the answer the bus gave during it. *)
(* Whatever calls came before on the handle, succeeded or failed, the call  *)
(* issues the bus call that its type and arguments prescribe, the bus       *)
(* executes that call's operations for it, and the call returns what its    *)
(* type prescribes for the answer; the prescriptions take nothing of the    *)
(* earlier calls, of their results or of their operations.                  *)
C19_CallsAreIndependent ==
    \A c \in Callers :
        (pc[c] # "idle" /\ call[c].fn \in {"read_register", "write_register",
                                            "invoke_command"})
            => IF Unencodable(call[c])
               THEN /\ pc[c] = "done"
                    /\ busLog[c] = <<>> /\ resps[c] = <<>> /\ OnWire(c) = {}
                    /\ result[c] = Err([enum |-> ErrorEnum(call[c].fn),
                                        variant |-> "SerializationError",
                                        cause |-> call[c].arg.fault])
               ELSE LET want == ExpectedBusCall(busKind, call[c])
                    IN /\ busLog[c] = <<want>>
                       /\ Len(resps[c]) <= 1
                       /\ \A i \in OnWire(c) : wire[i].op = want.ops[wire[i].idx].op
                       /\ resps[c] = <<>>
                            => /\ pc[c] = "bus"
                               /\ result[c].tag = "None"
                               /\ Cardinality(OnWire(c)) = progress[c]
                       /\ resps[c] # <<>>
                            => /\ pc[c] \in {"ready", "done"}
                               /\ Cardinality(OnWire(c)) >= 1
                               /\ resps[c][1].tag = "Ok"
                                    => Cardinality(OnWire(c)) = Len(want.ops)
                               /\ pc[c] = "done"
                                    => LET ret == ExpectedResult(call[c], resps[c][1])
                                       IN /\ result[c].tag = ret.tag
                                          /\ result[c].val = ret.val

\* on I2C, a blocking read of register 0x2A has returned the value the
\* device answered, after the first call on the handle failed on the bus
C19_Witness ==
    /\ busKind = "i2c"
    /\ HasHistory(1)
    /\ \E i \in DOMAIN wire : wire[i].seq = 1 /\ ~wire[i].ok
    /\ Calls(1, "read_register")
    /\ call[1].mode = "blocking"
    /\ call[1].ty.name = "Temperature"
    /\ pc[1] = "done"
    /\ busLog[1] = <<ExpectedBusCall("i2c", call[1])>>
    /\ resps[1] = <<Ok(<< <<1, 2>> >>)>>
    /\ result[1] = Ok(<<258>>)
    /\ Cardinality(OnWire(1)) = 2

(* C20: for every N, the array new() returns has exactly N bytes, all 0;    *)
(* as_ref and as_mut give slices of exactly N bytes over that array from    *)
(* its first byte, so the byte stored through as_mut at index i is the byte *)
(* as_ref shows at index i; the length stays N through every store.         *)
C20_ByteArrayBuffer ==
    (libIn.kind = "array" /\ libOut.op = "array")
        => LET N == libIn.data
           IN /\ Len(libOut.array) = N
              /\ libOut.view = [base |-> 0, len |-> N]
              /\ as_mut(libOut.array) = [base |-> 0, len |-> N]
              /\ Len(libOut.seen) = N
              /\ libOut.stored = <<>>
                    => \A i \in 1..N : libOut.array[i] = 0 /\ libOut.seen[i] = 0
              /\ libOut.stored # <<>>
                    => /\ libOut.stored[1] < N
                       /\ libOut.seen[libOut.stored[1] + 1] = libOut.stored[2]

\* 0xFF was stored at index 2 of a [u8; 3] and shows there through as_ref,
\* behind two bytes that are still 0
C20_Witness ==
    /\ libIn.kind = "array"
    /\ libIn.data = 3
    /\ libOut.op = "array"
    /\ libOut.stored = <<2, 255>>
    /\ libOut.seen = <<0, 0, 255>>

\* the identifier the function of c's call converts to bytes
IdConverted(c) ==
    CASE call[c].fn = "read_register" -> readable_id(call[c].ty)
      [] call[c].fn = "write_register" -> writeable_id(call[c].ty)
      [] call[c].fn = "invoke_command" -> id(call[c].ty)

(* C21: the conversion of the identifier to bytes succeeds in every call,   *)
(* for ids of all five widths: no call panics in unwrap or takes            *)
(* unwrap_unchecked on an Err, and the id bytes handed to the bus are the   *)
(* W/8 bytes of the conversion's Ok value.                                  *)
C21_IdConversionNeverFails ==
    \A c \in Callers :
        (pc[c] # "idle" /\ busLog[c] # <<>>
            /\ call[c].fn \in {"read_register", "write_register", "invoke_command"})
            => LET conv == to_bytes(call[c].ty.idw, IdConverted(c))
               IN /\ conv.tag = "Ok"
                  /\ IdOnBus(c) # Panicked
                  /\ IdOnBus(c) # Undefined
                  /\ Len(IdOnBus(c)) = call[c].ty.idw \div 8
                  /\ \A i \in DOMAIN IdOnBus(c) : IdOnBus(c)[i] \in Byte
                  /\ IdOnBus(c) = conv.val

\* a register with a u128 id has been read, all 16 id bytes written first
C21_Witness ==
    /\ Calls(1, "read_register")
    /\ call[1].ty.name = "Signature"
    /\ pc[1] = "done"
    /\ result[1].tag = "Ok"
    /\ IdOnBus(1) = <<16, 17, 18, 19, 20, 21, 22, 23, 24, 25, 26, 27, 28, 29, 30, 31>>

\* the macro ran on an integer literal with a suffix and gave an implementation
Generated ==
    /\ libIn.kind = "attribute"
    /\ libOut.op = "register"
    /\ libOut.out.kind = "tokens"

\* the argument of the attribute is one integer literal, and nothing else;
\* as LitInt has it, the literal may be written with a minus sign before it
SingleLiteral(attr) ==
    \/ Len(attr) = 1 /\ attr[1].kind = "int"
    \/ Len(attr) = 2 /\ attr[1].kind = "punct -" /\ attr[2].kind = "int"

\* the literal token of such an argument, and whether it has the minus sign
ArgLiteral(attr) == attr[Len(attr)]
ArgNegative(attr) == Len(attr) = 2

(* C22: for a type declared with #[register(<literal><suffix>)], every call *)
(* of id() returns the literal's value, with IdType the suffix type,        *)
(* whatever the number of transactions performed in between.  id() can be   *)
(* called only when the literal is not negated, is below 2^128, and fits    *)
(* the suffix type or the crate allows overflowing literals (the program    *)
(* does not compile otherwise); a literal that fits is returned             *)
(* as written, one that does not has the value of its low bits, which is    *)
(* the value the literal expression has in IdType.                          *)
C22_IdIsTheLiteral ==
    Generated
        => LET lit == ArgLiteral(libIn.data.attr)
           IN /\ libOut.out.impl.IdType = lit.suffix
              /\ \A i \in DOMAIN libOut.ids :
                    LET w == IdTypeWidth(lit.suffix)
                        value == libOut.ids[i].value
                    IN /\ libOut.ids[i].IdType = lit.suffix
                       /\ ~ArgNegative(libIn.data.attr)
                       /\ Representable(lit.value)
                       /\ Fits(w, lit.value) \/ libIn.data.overflowing_literals = "allow"
                       /\ Fits(w, lit.value) => value = lit.value
                       /\ Len(value) = NLimbs(w)
                       /\ w = 8 => value[1] \in Byte
                       /\ BigEndian(w, value) = BigEndian(w, lit.value)
                       /\ \A j \in DOMAIN libOut.ids : libOut.ids[j].value = value
              /\ (pc[1] # "idle" /\ busLog[1] # <<>>)
                    => IdOnBus(1) = BigEndian(IdTypeWidth(lit.suffix), lit.value)

\* #[register(0x1234u16)]: id() gave 0x1234 as a u16 before a transaction,
\* after one and after two; the second read wrote [0x12, 0x34] and returned
C22_Witness ==
    /\ Generated
    /\ pc[1] = "done" /\ seq[1] = 2 /\ result[1].tag = "Ok"
    /\ IdOnBus(1) = <<18, 52>>
    /\ libIn.data.attr = <<IntLit(<<4660>>, "u16")>>
    /\ libIn.data.overflowing_literals = "deny"
    /\ Len(libOut.ids) = 3
    /\ libOut.ids[1] = [IdType |-> "u16", value |-> <<4660>>, after |-> 0]
    /\ libOut.ids[2] = [IdType |-> "u16", value |-> <<4660>>, after |-> 1]
    /\ libOut.ids[3] = [IdType |-> "u16", value |-> <<4660>>, after |-> 2]

\* the items DeriveInput parses: the declarations of types
TypeDeclarations == {"struct", "enum", "union"}

(* C29 as stated: a single integer literal without a suffix is rejected     *)
(* with "Expected type suffix (e.g., u8, u16)", and with a suffix the       *)
(* annotated item is emitted unchanged together with the implementation,    *)
(* whatever the item is.                                                    *)
C29_AnyItemIsEmitted ==
    (libIn.kind = "attribute" /\ libOut.op = "register")
        => LET attr == libIn.data.attr
               out == libOut.out
           IN /\ (SingleLiteral(attr) /\ ArgLiteral(attr).suffix = "")
                    => /\ out.kind = "compile_error"
                       /\ out.msg = "Expected type suffix (e.g., u8, u16)"
              /\ (SingleLiteral(attr) /\ ArgLiteral(attr).suffix # "")
                    => /\ out.kind = "tokens"
                       /\ out.item = libIn.data.item

(* C29: #[register(..)] accepts only a single integer literal with a type   *)
(* suffix, on the declaration of a struct, an enum or a union.  A literal   *)
(* without a suffix is rejected with the error "Expected type suffix (e.g., *)
(* u8, u16)" and no implementation of Register is generated; any other      *)
(* argument is rejected as well, and so is any argument on an item that is  *)
(* not a type declaration; a literal with a suffix on a type declaration    *)
(* gives the declaration unchanged, together with the implementation whose  *)
(* IdType is the suffix and whose id() is the literal.  The integer literal *)
(* is the one LitInt parses, with its sign if any.                          *)
C29_RegisterAttribute ==
    (libIn.kind = "attribute" /\ libOut.op = "register")
        => LET attr == libIn.data.attr
               item == libIn.data.item
               out == libOut.out
           IN /\ (SingleLiteral(attr) /\ ArgLiteral(attr).suffix = "")
                    => /\ out.kind = "compile_error"
                       /\ out.msg = "Expected type suffix (e.g., u8, u16)"
              /\ ~(SingleLiteral(attr) /\ ArgLiteral(attr).suffix # "")
                    => out.kind = "compile_error"
              /\ item.kind \notin TypeDeclarations
                    => out.kind = "compile_error"
              /\ (SingleLiteral(attr) /\ ArgLiteral(attr).suffix # ""
                        /\ item.kind \in TypeDeclarations)
                    => /\ out.kind = "tokens"
                       /\ out.item = item
                       /\ out.impl.trait = "regiface::Register"
                       /\ out.impl.name = item.name
                       /\ out.impl.generics = item.generics
                       /\ out.impl.IdType = ArgLiteral(attr).suffix
                       /\ out.impl.id = Lit(ArgNegative(attr), ArgLiteral(attr))

\* #[register(42u8)] on a struct: the macro returned the struct and the
\* implementation of Register with IdType u8 and id() the literal 42u8
C29_Witness ==
    /\ libIn.kind = "attribute"
    /\ libIn.data.attr = <<IntLit(<<42>>, "u8")>>
    /\ libIn.data.item = Item("struct", "TemperatureRegister", "")
    /\ libOut.op = "register"
    /\ libOut.out.kind = "tokens"
    /\ libOut.out.item = Item("struct", "TemperatureRegister", "")
    /\ libOut.out.impl.IdType = "u8"
    /\ libOut.out.impl.id = Lit(FALSE, IntLit(<<42>>, "u8"))

\* the current call of c as the function of the given bus runs it on the bus
\* answers rs
OnBus(bus, c, rs) == Run(bus, call[c], rs)

\* the primitive the I2C function of fn hands its operations to
I2cPrimitive(fn) == IF fn = "read_register" THEN "write_read" ELSE "transaction"

(* C24: for the same type, arguments and bus answers, the SPI and the I2C    *)
(* function produce the same ordered list of write and read operations,     *)
(* with the same bytes and buffer lengths, and the same result.  They       *)
(* differ only in that I2C passes the device address, and that I2C          *)
(* read_register uses write_read where SPI uses a transaction of            *)
(* [write id, read buffer].                                                 *)
C24_SpiMatchesI2c ==
    \A c \in Callers :
        (pc[c] # "idle" /\ call[c].fn \in {"read_register", "write_register",
                                            "invoke_command"})
            => /\ \A k \in 0..Len(resps[c]) :
                    LET rs == SubSeq(resps[c], 1, k)
                        i == OnBus("i2c", c, rs)
                        s == OnBus("spi", c, rs)
                    IN /\ i.kind = s.kind
                       /\ i.call.ops = s.call.ops
                       /\ SameResult(i.res, s.res)
                       /\ i.kind # "return"
                            => /\ i.call.prim = I2cPrimitive(call[c].fn)
                               /\ s.call.prim = "transaction"
                               /\ i.call.addr = call[c].addr
                               /\ s.call.addr = NoAddr
                       /\ k < Len(busLog[c]) => busLog[c][k + 1].ops = s.call.ops
               /\ pc[c] = "done"
                    => /\ SameResult(result[c], OnBus("i2c", c, resps[c]).res)
                       /\ SameResult(result[c], OnBus("spi", c, resps[c]).res)

\* an I2C write of [0x07] to the register 0x2A has returned Ok; the SPI
\* function issues the same two writes and returns Ok on the same answer
C24_Witness ==
    /\ busKind = "i2c"
    /\ Calls(1, "write_register")
    /\ call[1].ty.name = "Temperature" /\ call[1].arg = Payload(<<7>>, "none")
    /\ pc[1] = "done"
    /\ result[1].tag = "Ok"
    /\ busLog[1][1].prim = "transaction" /\ busLog[1][1].addr = call[1].addr
    /\ OnBus("spi", 1, <<>>).call =
            Spi_transaction(<<Write(<<42>>), Write(<<7>>)>>)
    /\ OnBus("spi", 1, <<>>).call.ops = busLog[1][1].ops
    /\ OnBus("spi", 1, resps[1]).res.tag = "Ok"

(* C25: every I2C transaction function passes the caller's device_addr      *)
(* unchanged to its single bus call, so all operations of one call are      *)
(* addressed to that one device address.                                    *)
C25_DeviceAddrUnchanged ==
    \A c \in Callers :
        (busKind = "i2c" /\ pc[c] # "idle"
            /\ call[c].fn \in {"read_register", "write_register", "invoke_command"})
            => /\ Len(busLog[c]) <= 1
               /\ \A k \in DOMAIN busLog[c] : busLog[c][k].addr = call[c].addr
               /\ \A k \in 0..Len(resps[c]) :
                    LET step == OnBus("i2c", c, SubSeq(resps[c], 1, k))
                    IN step.kind # "return" => step.call.addr = call[c].addr
               /\ \A w \in OnWire(c) : wire[w].call = 1

\* a blocking read from the device at 0x1D has completed: its write and its
\* read both went out in the one call addressed to 0x1D
C25_Witness ==
    /\ busKind = "i2c"
    /\ Calls(1, "read_register")
    /\ call[1].mode = "blocking"
    /\ call[1].addr = 29
    /\ pc[1] = "done"
    /\ Len(busLog[1]) = 1
    /\ busLog[1][1].addr = 29
    /\ Cardinality(OnWire(1)) = 2

\* the type of c's call also declares a readable and a writeable id
HasOpcodes(c) == "rid" \in DOMAIN call[c].ty /\ "wid" \in DOMAIN call[c].ty

(* C26: invoke_command always writes the bytes of the command's canonical   *)
(* id(): one id for the whole exchange, no separate read or write id, on    *)
(* both buses and in both modes.                                            *)
C26_CommandUsesCanonicalId ==
    \A c \in Callers :
        (Calls(c, "invoke_command") /\ busLog[c] # <<>>)
            => /\ IdOnBus(c) = CanonicalId(call[c].ty)
               /\ IdOnBus(c) = CommandIdBytes(call[c].ty)
               /\ \A k \in 2..Len(busLog[c][1].ops) :
                    busLog[c][1].ops[k].op = "Write"
                        => busLog[c][1].ops[k].bytes = payload_to_bytes(call[c].arg).val
               /\ HasOpcodes(c)
                    => /\ IdOnBus(c) # ReadOpcode(call[c].ty)
                       /\ IdOnBus(c) # WriteOpcode(call[c].ty)

\* the command 0x30 of a type that is read by 0xB0 and written by 0x70 has
\* been invoked over SPI: 0x30 was written, and the response read
C26_Witness ==
    /\ busKind = "spi"
    /\ Calls(1, "invoke_command")
    /\ call[1].ty = Probe
    /\ call[1].mode = "blocking"
    /\ pc[1] = "done"
    /\ result[1].tag = "Ok"
    /\ IdOnBus(1) = <<48>>

\* the k-th operation of c's bus call went over the wire, successfully
Delivered(c, k) ==
    {i \in OnWire(c) : /\ wire[i].call = 1 /\ wire[i].idx = k /\ wire[i].ok
                       /\ wire[i].op = busLog[c][1].ops[k].op}

(* C27: when from_bytes fails in read_register or invoke_command, the call  *)
(* returns DeserializationError after the bus transaction has completed:    *)
(* the id write and, for a command, the parameter write have been delivered *)
(* exactly once, and nothing is undone or repeated.                         *)
C27_DeserializationAfterBus ==
    \A c \in Callers :
        (pc[c] = "done" /\ call[c].fn \in {"read_register", "invoke_command"}
            /\ Tag(c) = "DeserializationError")
            => /\ DeserPhaseFailed(c)
               /\ Len(busLog[c]) = 1
               /\ resps[c] # <<>> /\ resps[c][Len(resps[c])].tag = "Ok"
               /\ busLog[c][1].ops[1] = [op |-> "Write", bytes |-> IdOnBus(c)]
               /\ call[c].fn = "invoke_command" => busLog[c][1].ops[2].op = "Write"
               /\ \A k \in DOMAIN busLog[c][1].ops : Cardinality(Delivered(c, k)) = 1
               /\ Cardinality(OnWire(c)) = Len(busLog[c][1].ops)
               /\ trace[c].deser = 1

\* the command 0xBEEF was invoked and its response did not decode: the id,
\* the parameters and the read each went over the wire once
C27_Witness ==
    /\ Calls(1, "invoke_command")
    /\ call[1].ty.name = "Calibrate"
    /\ pc[1] = "done"
    /\ Tag(1) = "DeserializationError"
    /\ Cardinality(OnWire(1)) = 3
    /\ Cardinality(Delivered(1, 1)) = 1
    /\ Cardinality(Delivered(1, 2)) = 1

(* C28: for the slice conversions, from_slice(into_slice(v)) returns v for  *)
(* every u8, u16 and u32 value v, and the 2- and 4-byte forms put the least *)
(* significant byte first: 0x1234u16 gives [0x34, 0x12].                    *)
C28_SliceRoundTrip ==
    codecOut.op = "into_slice"
        => LET v == codecIn.data
               n == NBytes(codecIn.w)
           IN /\ codecOut.first.tag = "Ok"
              /\ Len(codecOut.first.val) = n
              /\ \A k \in 0..(n - 1) : codecOut.first.val[k + 1] = ShiftByte(v, 8 * k)
              /\ codecOut.second.tag = "Ok"
              /\ codecOut.second.val = v
              /\ (codecIn.w = 16 /\ v = <<4660>>) => codecOut.first.val = <<52, 18>>

\* 0x34562345u32 became [0x45, 0x23, 0x56, 0x34], and the array gave it back
C28_Witness ==
    /\ codecIn = [w |-> 32, kind |-> "value", data |-> <<9029, 13398>>]
    /\ codecOut.op = "into_slice"
    /\ codecOut.first = Ok(<<69, 35, 86, 52>>)
    /\ codecOut.second = Ok(<<9029, 13398>>)

====
